---- MODULE Spec2Model ----
(***************************************************************************)
(* Model of the character-composition pipeline of                          *)
(* core/line_composer.py: glyph lookup (CharacterImageLoader), line        *)
(* assembly, whitespace crop, background blend and augmentation            *)
(* (LineImageComposer), and ImageProcessor.crop_whitespace.                *)
(*                                                                         *)
(* An image is a numpy array of shape (height, width): a sequence of rows, *)
(* every row a sequence of 8-bit pixel values.  A text is a sequence of    *)
(* one-character strings.                                                  *)
(***************************************************************************)
EXTENDS Integers, Sequences, FiniteSets, TLC

VARIABLES
    char_images,         \* CharacterImageLoader.char_images: char -> style -> array
    background_images,   \* LineImageComposer.background_images
    pc,                  \* position inside compose_line_image
    text,                \* argument text
    font_style,          \* argument font_style ("None" for None)
    add_background,      \* argument add_background
    apply_augmentation,  \* argument apply_augmentation
    pos,                 \* number of characters of text already consumed by the loop
    char_image_list,     \* local list char_images of compose_line_image
    filtered_text,       \* local filtered_text
    prev_image,          \* the image the last stage received
    line_image,          \* local line_image: the image the last stage produced
    background,          \* the background the blend used (after its resize)
    stages,              \* the stages and transforms that ran, in order
    lookups,             \* number of get_character_image calls of this compose call
    ret,                 \* value returned by the last compose_line_image call
    ip_args,             \* threshold and margin of the last ImageProcessor.crop_whitespace call
    dict_file,           \* the lines of the file at char_dict_path, or NoFile
    image_dir,           \* the files under image_directory, or NoDirectory
    char_dict,           \* CharacterImageLoader.char_dict: char -> code
    char_dict_reverse,   \* CharacterImageLoader.char_dict_reverse: code -> char
    lpc,                 \* position inside CharacterImageLoader.__init__
    line_no,             \* number of dictionary lines already read
    file_no,             \* number of listed image files already visited
    error,               \* the exception that left the constructor, or None
    lookup,              \* the last get_character_image call and its result
    bc_args,             \* factors of the last adjust_brightness_contrast call
    available_chars,     \* argument available_chars of filter_available_text
    filtered_chars,      \* result of filter_available_text
    corpus_lines,        \* CorpusProcessor.corpus_lines
    use_corpus,          \* argument use_corpus of generate_line_samples
    num_samples,         \* argument num_samples of generate_line_samples
    sample_index,        \* loop variable i of generate_line_samples
    samples_metadata,    \* local samples_metadata of generate_line_samples
    labels_file,         \* content of labels.json, or NoFile
    gpc,                 \* position inside generate_line_samples
    config,              \* the generator's config: add_background, apply_augmentation
    corpus_directory,    \* the files of CorpusProcessor.corpus_directory, by name
    file_list,           \* argument file_list of load_corpus_files
    cpc,                 \* position inside load_corpus_files
    corpus_file_no,      \* number of entries of file_list already visited
    output_files,        \* the names of the image files in output_directory
    skipped_indices,     \* the indices i of generate_line_samples that persisted nothing
    line_query,          \* the last get_line_by_index or get_random_line call and its result
    pipeline,            \* the random_augmentation_pipeline call in progress
    total_samples,       \* argument total_samples of generate_parallel
    batch_size,          \* argument batch_size of generate_parallel
    max_workers,         \* argument max_workers of generate_parallel
    ppc,                 \* position inside generate_parallel
    futures,             \* local futures: the submitted batches and their state
    written,             \* the files written under output_dir, each with its writer
    all_samples          \* local all_samples of generate_parallel

vars == <<char_images, background_images, pc, text, font_style, add_background,
          apply_augmentation, pos, char_image_list, filtered_text, prev_image,
          line_image, background, stages, lookups, ret, ip_args,
          dict_file, image_dir, char_dict, char_dict_reverse, lpc, line_no,
          file_no, error, lookup, bc_args, available_chars, filtered_chars,
          corpus_lines, use_corpus, num_samples, sample_index,
          samples_metadata, labels_file, gpc, config,
          corpus_directory, file_list, cpc, corpus_file_no, skipped_indices,
          output_files, line_query, pipeline, total_samples, batch_size,
          max_workers, ppc, futures, written, all_samples>>

\* the state of the loader, of the utility calls and of the generator
loader_vars == <<dict_file, image_dir, char_dict, char_dict_reverse, lpc, line_no,
                 file_no, error, lookup>>
util_vars == <<bc_args, available_chars, filtered_chars>>
gen_vars == <<corpus_lines, use_corpus, num_samples, sample_index,
              samples_metadata, labels_file, gpc, config, skipped_indices,
              output_files>>
corpus_vars == <<corpus_directory, file_list, cpc, corpus_file_no, line_query>>
pipeline_vars == <<pipeline>>
parallel_vars == <<total_samples, batch_size, max_workers, ppc, futures, written,
                   all_samples>>
aux_vars == <<corpus_vars, pipeline_vars, parallel_vars>>
composer_vars == <<char_images, background_images, pc, text, font_style,
                   add_background, apply_augmentation, pos, char_image_list,
                   filtered_text, prev_image, line_image, background, stages,
                   lookups, ret, ip_args>>

----------------------------------------------------------------------------
(* Bounds of the model *)

MaxLen == 2          \* texts of up to MaxLen characters are composed
MaxSeq == 3          \* glyph sequences handed to the assembly on its own
MaxGlyphH == 3       \* glyph heights of those sequences
MaxGlyphW == 2       \* glyph widths of those sequences
MaxCropH == 4        \* heights of the images handed to the crop on its own
MaxCropW == 8        \* widths of the images handed to the crop on its own
MaxFg == 2           \* side of the line images handed to the blend on its own
MaxBg == 3           \* side of the backgrounds handed to the blend on its own
MaxAug == 2          \* augmented images are up to MaxAug x MaxAug pixels
MaxDictLines == 3    \* dictionary files have up to MaxDictLines lines
MaxFiles == 2        \* image directories hold up to MaxFiles files
MaxText == 3         \* filtered texts have up to MaxText characters
MaxAvailable == 2    \* lists of available characters have up to MaxAvailable entries
MaxSamples == 2      \* a run is asked for up to MaxSamples samples
MaxRandomLen == 3    \* random texts have 3..MaxRandomLen characters
MaxCorpusLines == 2  \* corpus files have up to MaxCorpusLines lines
MaxFileList == 3     \* file lists name up to MaxFileList files
MaxTotal == 4        \* generate_parallel is asked for up to MaxTotal samples
MaxBatch == 3        \* in batches of up to MaxBatch samples

(* Program constants *)

space_width == 20
space_height == 32
crop_threshold == 230
crop_margin == 3
blend_threshold == 180
WHITE == 255

None == "None"
NoImage == <<>>

----------------------------------------------------------------------------
(* Arrays *)

Height(img) == Len(img)
Width(img) == IF Len(img) = 0 THEN 0 ELSE Len(img[1])

Max2(a, b) == IF a >= b THEN a ELSE b
Min2(a, b) == IF a <= b THEN a ELSE b

\* np.full((h, w), v) and Image.new('L', (w, h), v)
Full(h, w, v) == [r \in 1..h |-> [c \in 1..w |-> v]]

\* np.pad(img, ((top, bottom), (0, 0)), mode='constant', constant_values=v)
PadRows(img, top, bottom, v) ==
    Full(top, Width(img), v) \o img \o Full(bottom, Width(img), v)

\* a glyph picture: white, with an ink rectangle that leaves inset_y white rows
\* above and below it and inset_x white columns on its left and its right
InkBox(h, w, inset_y, inset_x, ink) ==
    [r \in 1..h |-> [c \in 1..w |->
        IF r > inset_y /\ r <= h - inset_y /\ c > inset_x /\ c <= w - inset_x
        THEN ink ELSE WHITE]]

----------------------------------------------------------------------------
(* Text *)

Whitespace == {" ", "\t", "\n"}

\* str.isspace() of a one-character string
isspace(ch) == ch \in Whitespace

\* str.strip(): drop the leading and the trailing whitespace
RECURSIVE lstrip(_)
lstrip(t) ==
    IF t = <<>> THEN <<>>
    ELSE IF isspace(Head(t)) THEN lstrip(Tail(t)) ELSE t

RECURSIVE rstrip(_)
rstrip(t) ==
    IF t = <<>> THEN <<>>
    ELSE IF isspace(t[Len(t)]) THEN rstrip(SubSeq(t, 1, Len(t) - 1)) ELSE t

\* mutant: the text is tested without being stripped
strip_NotStripped(t) == t

strip(t) == rstrip(lstrip(t))

----------------------------------------------------------------------------
(* CharacterImageLoader *)

\* mutant: only the characters loaded in more than one style are listed
get_available_characters_ManyStyles(store) ==
    {ch \in DOMAIN store : Cardinality(DOMAIN store[ch]) > 1}

\* get_available_characters: list(self.char_images.keys())
get_available_characters(store) == DOMAIN store

\* mutant: a requested style that is not loaded gives None, no random style
get_character_image_NoFallback(store, ch, style) ==
    IF ch \notin DOMAIN store THEN {NoImage}
    ELSE IF style = None THEN {store[ch][f] : f \in DOMAIN store[ch]}
    ELSE IF style \in DOMAIN store[ch] THEN {store[ch][style]}
    ELSE {NoImage}

\* mutant: the requested style is ignored, a random one is always drawn
get_character_image_IgnoresStyle(store, ch, style) ==
    IF ch \notin DOMAIN store THEN {NoImage}
    ELSE {store[ch][f] : f \in DOMAIN store[ch]}

\* get_character_image: the set of values the call can return; NoImage is
\* None.  random.choice may pick any of the loaded styles.
get_character_image(store, ch, style) ==
    IF ch \notin DOMAIN store THEN {NoImage}
    ELSE LET available_fonts == DOMAIN store[ch] IN
         IF available_fonts = {} THEN {NoImage}
         ELSE IF style = None \/ style \notin available_fonts
              THEN {store[ch][f] : f \in available_fonts}
              ELSE {store[ch][style]}

----------------------------------------------------------------------------
(* LineImageComposer._concatenate_character_images *)

RECURSIVE max_height_of(_)
max_height_of(imgs) ==
    IF Len(imgs) = 1 THEN Height(imgs[1])
    ELSE Max2(Height(imgs[1]), max_height_of(Tail(imgs)))

\* mutant: the glyph is put at the top, all padding below it
pad_top_None(max_height, h) == 0

pad_top(max_height, h) == (max_height - h) \div 2
pad_bottom(max_height, h) == max_height - h - pad_top(max_height, h)

\* the loop of lines 291-299: every image shorter than max_height is padded
resized_images(imgs) ==
    LET max_height == max_height_of(imgs) IN
    [k \in 1..Len(imgs) |->
        IF Height(imgs[k]) < max_height
        THEN PadRows(imgs[k], pad_top(max_height, Height(imgs[k])),
                     pad_bottom(max_height, Height(imgs[k])), WHITE)
        ELSE imgs[k]]

\* mutant: one more column is counted for every image
RECURSIVE total_width_of_Spaced(_)
total_width_of_Spaced(imgs) ==
    IF imgs = <<>> THEN 0 ELSE Width(imgs[1]) + 1 + total_width_of_Spaced(Tail(imgs))

RECURSIVE total_width_of(_)
total_width_of(imgs) ==
    IF imgs = <<>> THEN 0 ELSE Width(imgs[1]) + total_width_of(Tail(imgs))

\* line_array[:, current_x:current_x + img.shape[1]] = img
paste(line_array, img, current_x) ==
    [r \in 1..Height(line_array) |-> [c \in 1..Width(line_array) |->
        IF c > current_x /\ c <= current_x + Width(img)
        THEN img[r][c - current_x]
        ELSE line_array[r][c]]]

\* mutant: current_x advances by one column too few
RECURSIVE paste_all_Overlap(_, _, _, _)
paste_all_Overlap(line_array, imgs, k, current_x) ==
    IF k > Len(imgs) THEN line_array
    ELSE paste_all_Overlap(paste(line_array, imgs[k], current_x), imgs, k + 1,
                           current_x + Width(imgs[k]) - 1)

\* the loop of lines 304-307
RECURSIVE paste_all(_, _, _, _)
paste_all(line_array, imgs, k, current_x) ==
    IF k > Len(imgs) THEN line_array
    ELSE paste_all(paste(line_array, imgs[k], current_x), imgs, k + 1,
                   current_x + Width(imgs[k]))

\* mutant: the padding is written into the array of the store
glyph_after_pad_InPlace(stored, padded) == padded

\* line 297: np.pad returns a new array and img is rebound to it; the array
\* of the store that get_character_image returned is not written
glyph_after_pad(stored, padded) == stored

\* the store after the loop of lines 291-299 over the arrays of the list,
\* chars[k] being the character whose stored array imgs[k] is
store_after_padding(store, chars, imgs) ==
    IF DOMAIN store = {} \/ imgs = <<>> THEN store
    ELSE LET resized == resized_images(imgs)
             Uses(ch, f) == {k \in 1..Min2(Len(chars), Len(imgs)) :
                                chars[k] = ch /\ imgs[k] = store[ch][f]}
         IN  [ch \in DOMAIN store |-> [f \in DOMAIN store[ch] |->
                IF Uses(ch, f) = {} THEN store[ch][f]
                ELSE glyph_after_pad(store[ch][f],
                                     resized[CHOOSE k \in Uses(ch, f) : TRUE])]]

_concatenate_character_images(imgs) ==
    IF imgs = <<>> THEN NoImage
    ELSE LET resized == resized_images(imgs)
             line_array == Full(max_height_of(imgs), total_width_of(resized), WHITE)
         IN  paste_all(line_array, resized, 1, 0)

----------------------------------------------------------------------------
(* LineImageComposer._crop_whitespace and ImageProcessor.crop_whitespace *)

\* np.sum(image_array < threshold, axis=1): ink pixels of every row
horizontal_sum(img, threshold) ==
    [r \in 1..Height(img) |->
        Cardinality({c \in 1..Width(img) : img[r][c] < threshold})]

\* np.sum(image_array < threshold, axis=0): ink pixels of every column
vertical_sum(img, threshold) ==
    [c \in 1..Width(img) |->
        Cardinality({r \in 1..Height(img) : img[r][c] < threshold})]

Reverse(s) == [k \in 1..Len(s) |-> s[Len(s) + 1 - k]]

\* mutant: a search that answers len(s) when no entry is positive
argmax_positive_NotFound(s) ==
    IF \E k \in 1..Len(s) : s[k] > 0
    THEN (CHOOSE k \in 1..Len(s) : s[k] > 0 /\ \A j \in 1..(k - 1) : s[j] <= 0) - 1
    ELSE Len(s)

\* np.argmax(s > 0): 0-based index of the first positive entry, 0 when none is
argmax_positive(s) ==
    IF \E k \in 1..Len(s) : s[k] > 0
    THEN (CHOOSE k \in 1..Len(s) : s[k] > 0 /\ \A j \in 1..(k - 1) : s[j] <= 0) - 1
    ELSE 0

\* Image.crop((left, top, right, bottom)); pixels outside the image read 0
image_crop(img, box) ==
    [r \in 1..(box.bottom - box.top) |-> [c \in 1..(box.right - box.left) |->
        IF box.top + r \in 1..Height(img) /\ box.left + c \in 1..Width(img)
        THEN img[box.top + r][box.left + c]
        ELSE 0]]

\* mutant: bottom and right are the last ink row and column, not one past
ink_bounds_OffByOne(img) ==
    LET hs == horizontal_sum(img, crop_threshold)
        vs == vertical_sum(img, crop_threshold)
    IN  [top |-> argmax_positive(hs),
         bottom |-> Len(hs) - argmax_positive(Reverse(hs)) - 1,
         left |-> argmax_positive(vs),
         right |-> Len(vs) - argmax_positive(Reverse(vs)) - 1]

\* lines 318-325: the bounds of the ink, bottom and right exclusive
ink_bounds(img) ==
    LET hs == horizontal_sum(img, crop_threshold)
        vs == vertical_sum(img, crop_threshold)
    IN  [top |-> argmax_positive(hs),
         bottom |-> Len(hs) - argmax_positive(Reverse(hs)),
         left |-> argmax_positive(vs),
         right |-> Len(vs) - argmax_positive(Reverse(vs))]

\* mutant: the box is not clamped to the image
with_margins_Unclamped(b, h, w, m_top, m_bottom, m_left, m_right) ==
    [top |-> b.top - m_top,
     bottom |-> b.bottom + m_bottom,
     left |-> b.left - m_left,
     right |-> b.right + m_right]

\* lines 329-332; m_top .. m_right are the four random.randint(0, margin) draws
with_margins(b, h, w, m_top, m_bottom, m_left, m_right) ==
    [top |-> Max2(0, b.top - m_top),
     bottom |-> Min2(h, b.bottom + m_bottom),
     left |-> Max2(0, b.left - m_left),
     right |-> Min2(w, b.right + m_right)]

\* the boxes the four draws can give
crop_boxes(img) ==
    LET b == ink_bounds(img) IN
    {with_margins(b, Height(img), Width(img), m_top, m_bottom, m_left, m_right) :
        m_top \in 0..crop_margin, m_bottom \in 0..crop_margin,
        m_left \in 0..crop_margin, m_right \in 0..crop_margin}

\* the set of images _crop_whitespace can return
_crop_whitespace(img) == {image_crop(img, box) : box \in crop_boxes(img)}

\* ImageProcessor.crop_whitespace: np.where(horizontal_sum > 0)[0]
content_indices(s) == {k \in 1..Len(s) : s[k] > 0}

SetMin(S) == CHOOSE x \in S : \A y \in S : x <= y
SetMax(S) == CHOOSE x \in S : \A y \in S : x >= y

\* mutant: bottom and right stop at the last ink row and column
ip_crop_box_Short(img, threshold, margin) ==
    LET rows == content_indices(horizontal_sum(img, threshold))
        cols == content_indices(vertical_sum(img, threshold))
    IN  [top |-> Max2(0, SetMin(rows) - 1 - margin),
         bottom |-> Min2(Height(img), SetMax(rows) - 1 + margin),
         left |-> Max2(0, SetMin(cols) - 1 - margin),
         right |-> Min2(Width(img), SetMax(cols) - 1 + margin)]

\* lines 49-52, with rows[0] = SetMin(rows) - 1 and rows[-1] = SetMax(rows) - 1
ip_crop_box(img, threshold, margin) ==
    LET rows == content_indices(horizontal_sum(img, threshold))
        cols == content_indices(vertical_sum(img, threshold))
    IN  [top |-> Max2(0, SetMin(rows) - 1 - margin),
         bottom |-> Min2(Height(img), SetMax(rows) - 1 + margin + 1),
         left |-> Max2(0, SetMin(cols) - 1 - margin),
         right |-> Min2(Width(img), SetMax(cols) - 1 + margin + 1)]

crop_whitespace(img, threshold, margin) ==
    LET rows == content_indices(horizontal_sum(img, threshold))
        cols == content_indices(vertical_sum(img, threshold))
    IN  IF rows = {} \/ cols = {} THEN img
        ELSE image_crop(img, ip_crop_box(img, threshold, margin))

----------------------------------------------------------------------------
(* LineImageComposer._blend_with_background *)

\* the values a resampled pixel is drawn from
ResamplePixels == {100, 200}

IsUniform(img) ==
    \A r \in 1..Height(img) : \A c \in 1..Width(img) : img[r][c] = img[1][1]

\* mutant: a side of the image that is longer than requested is kept
resize_KeepLarger(img, w, h) ==
    IF IsUniform(img) THEN {Full(Max2(h, Height(img)), Max2(w, Width(img)), img[1][1])}
    ELSE {[r \in 1..Max2(h, Height(img)) |-> [c \in 1..Max2(w, Width(img)) |->
                IF (r + c) % 2 = 0 THEN v[1] ELSE v[2]]] :
            v \in ResamplePixels \X ResamplePixels}

\* background.resize((w, h), LANCZOS): the result has exactly the requested
\* size.  The filter's weights are normalised, so a uniform image stays
\* uniform; the pixel values of any other image are left open, and the
\* model takes them from the two-valued patterns over ResamplePixels.
resize(img, w, h) ==
    IF IsUniform(img) THEN {Full(h, w, img[1][1])}
    ELSE {[r \in 1..h |-> [c \in 1..w |-> IF (r + c) % 2 = 0 THEN v[1] ELSE v[2]]] :
            v \in ResamplePixels \X ResamplePixels}

\* mutant: the background is resized only when it is smaller both ways
resized_background_BothSmaller(fg, bg) ==
    IF Width(bg) < Width(fg) /\ Height(bg) < Height(fg)
    THEN resize(bg, Width(fg), Height(fg))
    ELSE {bg}

\* lines 351-352: the background the blend works on
resized_background(fg, bg) ==
    IF Width(bg) < Width(fg) \/ Height(bg) < Height(fg)
    THEN resize(bg, Width(fg), Height(fg))
    ELSE {bg}

\* line 352: Image.resize returns a new image and background is rebound to
\* it; np.array(background) and .copy() are new arrays, so the loaded
\* background is not written
background_after_blend(stored, resized) == stored

\* bg_array[:fg_height, :fg_width]
top_left(arr, h, w) ==
    [r \in 1..Min2(h, Height(arr)) |-> [c \in 1..Min2(w, Width(arr)) |-> arr[r][c]]]

\* mutant: the mask is fg_array <= threshold
overlay_Inclusive(fg, bg, threshold) ==
    LET result_array == top_left(bg, Height(fg), Width(fg)) IN
    [r \in 1..Height(result_array) |-> [c \in 1..Width(result_array) |->
        IF fg[r][c] <= threshold THEN fg[r][c] ELSE result_array[r][c]]]

\* lines 357-361, bg already resized
overlay(fg, bg, threshold) ==
    LET result_array == top_left(bg, Height(fg), Width(fg)) IN
    [r \in 1..Height(result_array) |-> [c \in 1..Width(result_array) |->
        IF fg[r][c] < threshold THEN fg[r][c] ELSE result_array[r][c]]]

\* the set of images the blend can return
_blend_with_background(fg, bg, threshold) ==
    {overlay(fg, b, threshold) : b \in resized_background(fg, bg)}


----------------------------------------------------------------------------
(* LineImageComposer._apply_augmentation *)

\* the sampled parameters the model draws from
BrightnessFactors == {80, 120}   \* random.uniform(0.8, 1.2), in hundredths
NoiseAmplitudes == {6}             \* |np.random.normal(0, 5)| of a pixel

\* mutant: .astype(np.uint8) without the np.clip before it
clip_Wrapped(v) == v % 256

\* np.clip(v, 0, 255)
clip(v) == Min2(255, Max2(0, v))

\* np.clip(image_array * brightness_factor, 0, 255).astype(np.uint8)
adjust_brightness(img, factor) ==
    [r \in 1..Height(img) |-> [c \in 1..Width(img) |->
        clip((img[r][c] * factor) \div 100)]]

\* the noise field: +amp and -amp on alternating pixels
noise_at(amp, r, c) == IF (r + c) % 2 = 0 THEN amp ELSE 0 - amp

\* np.clip(image_array + noise, 0, 255).astype(np.uint8)
add_noise(img, amp) ==
    [r \in 1..Height(img) |-> [c \in 1..Width(img) |->
        clip(img[r][c] + noise_at(amp, r, c))]]

\* BORDER_REFLECT_101 index into 1..n
reflect101(k, n) ==
    IF n = 1 THEN 1
    ELSE IF k < 1 THEN 2 - k
    ELSE IF k > n THEN 2 * n - k
    ELSE k

\* cv2.GaussianBlur(image_array, (3, 3), 0.5): separable kernel
\* (27, 202, 27) / 256 in 8-bit fixed point, rounded once at the end
blur_rows(img) ==
    LET n == Width(img) IN
    [r \in 1..Height(img) |-> [c \in 1..n |->
        27 * img[r][reflect101(c - 1, n)] + 202 * img[r][c]
            + 27 * img[r][reflect101(c + 1, n)]]]

gaussian_blur(img) ==
    LET n == Height(img)
        rows == blur_rows(img)
    IN  [r \in 1..n |-> [c \in 1..Width(img) |->
            clip((27 * rows[reflect101(r - 1, n)][c] + 202 * rows[r][c]
                  + 27 * rows[reflect101(r + 1, n)][c] + 32768) \div 65536)]]

\* the three draws of lines 370, 375 and 380 decide which transforms apply
aug_brightness(img, on, factor) == IF on THEN adjust_brightness(img, factor) ELSE img
aug_noise(img, on, amp) == IF on THEN add_noise(img, amp) ELSE img
aug_blur(img, on) == IF on THEN gaussian_blur(img) ELSE img

\* mutant: the noise is added before the brightness is scaled
_apply_augmentation_NoiseFirst(img, b_on, factor, n_on, amp, g_on) ==
    aug_blur(aug_brightness(aug_noise(img, n_on, amp), b_on, factor), g_on)

\* lines 367-384: brightness, then noise, then blur
_apply_augmentation(img, b_on, factor, n_on, amp, g_on) ==
    aug_blur(aug_noise(aug_brightness(img, b_on, factor), n_on, amp), g_on)

applied_transforms(b_on, n_on, g_on) ==
    (IF b_on THEN <<"brightness">> ELSE <<>>)
        \o (IF n_on THEN <<"noise">> ELSE <<>>)
        \o (IF g_on THEN <<"blur">> ELSE <<>>)

(* DataAugmentation.adjust_brightness_contrast *)

\* random.uniform(0.8, 1.2) of both ranges, in hundredths
BCFactors == {80, 100, 120}

\* (v * brightness - 127.5) * contrast + 127.5 of a pixel, clipped and then
\* truncated by .astype(np.uint8); the factors are in hundredths, so the
\* value is ((2 v b - 25500) c + 2550000) / 20000
adjust_brightness_contrast(img, brightness, contrast) ==
    [r \in 1..Height(img) |-> [c \in 1..Width(img) |->
        clip(((2 * img[r][c] * brightness - 25500) * contrast + 2550000) \div 20000)]]

----------------------------------------------------------------------------
(* The stores, backgrounds and texts the composer is run on *)

\* a store with 20x30 white-background black-ink glyphs for A, B and C; A is
\* loaded in two styles, and some glyphs keep a white border around the ink
ScenarioStore ==
    [ch \in {"A", "B", "C"} |->
        IF ch = "A" THEN [f \in {"s1", "s2"} |->
                            IF f = "s1" THEN InkBox(30, 20, 0, 0, 0)
                            ELSE InkBox(30, 20, 0, 1, 0)]
        ELSE IF ch = "B" THEN [f \in {"s1"} |-> InkBox(30, 20, 0, 0, 0)]
        ELSE [f \in {"s2"} |-> InkBox(30, 20, 2, 2, 0)]]

\* a store whose glyphs differ in size, one of them taller than a space
MixedStore ==
    [ch \in {"A", "B"} |->
        IF ch = "A" THEN [f \in {"s1"} |-> InkBox(34, 4, 0, 0, 100)]
        ELSE [f \in {"s1"} |-> InkBox(28, 6, 0, 0, 0)]]

EmptyStore == <<>>

\* a small uniform background, and a patterned one that is larger than every
\* line composed from MixedStore
SmallBackground == Full(8, 8, 200)
PatternBackground == [r \in 1..36 |-> [c \in 1..32 |-> 150 + ((3 * r + 7 * c) % 100)]]

\* the loaded glyph store and background list of a run
Configs ==
    {<<ScenarioStore, <<SmallBackground>> >>,
     <<MixedStore, <<SmallBackground, PatternBackground>> >>,
     <<EmptyStore, <<>> >>}

Alphabet == {"A", "B", "X"}
Styles == {None, "s2"}

\* the texts of the end-to-end scenarios, and texts with whitespace in them
ScenarioTexts ==
    {<<"A", "A", "B", "C">>, <<"A", "X", "B">>, <<"A", " ", "B">>}
WhitespaceTexts ==
    {<<" ">>, <<" ", "\t", " ">>, <<"X", " ">>, <<" ", "A">>, <<"B", "\t">>}

Texts ==
    UNION {[1..n -> Alphabet] : n \in 0..MaxLen} \cup ScenarioTexts \cup WhitespaceTexts

----------------------------------------------------------------------------
(* LineImageComposer.compose_line_image *)

NoResult == [image |-> NoImage, text |-> <<>>]

\* mutant: width and height of the blank are swapped
space_image_Transposed == Full(space_width, space_height, WHITE)

\* lines 246-249: np.array(Image.new('L', (space_width, space_height), 255))
space_image == Full(space_height, space_width, WHITE)

\* a file is its lines, a directory its files, when it exists
NoFile == [exists |-> FALSE, lines |-> <<>>]
File(lines) == [exists |-> TRUE, lines |-> lines]
NoDirectory == [exists |-> FALSE, files |-> <<>>]
Directory(files) == [exists |-> TRUE, files |-> files]
NoLookup == [char |-> "", font_style |-> None, image |-> NoImage]
NoFactors == [brightness |-> 0, contrast |-> 0]

NoConfig == [add_background |-> FALSE, apply_augmentation |-> FALSE]

\* the loader has finished and its files are not looked at again
LoaderReady ==
    /\ dict_file = File(<<>>)
    /\ image_dir = Directory(<<>>)
    /\ char_dict = <<>>
    /\ char_dict_reverse = <<>>
    /\ lpc = "ready"
    /\ line_no = 0
    /\ file_no = 0
    /\ error = None
    /\ lookup = NoLookup

\* no utility call has been made
NoUtilityCall ==
    /\ bc_args = NoFactors
    /\ available_chars = <<>>
    /\ filtered_chars = <<>>

\* no generation run is in progress
NoGeneration ==
    /\ corpus_lines = <<>>
    /\ use_corpus = FALSE
    /\ num_samples = 0
    /\ sample_index = 0
    /\ samples_metadata = <<>>
    /\ labels_file = NoFile
    /\ gpc = "none"
    /\ config = NoConfig
    /\ skipped_indices = <<>>
    /\ output_files = {}

\* no random_augmentation_pipeline call is in progress
NoPipeline == [image |-> <<>>, original |-> <<>>, prob_each |-> 0, step |-> 0,
               applied |-> <<>>]

\* no generate_parallel call is in progress
NoParallelCall ==
    /\ total_samples = 0
    /\ batch_size = 0
    /\ max_workers = 0
    /\ ppc = "none"
    /\ futures = <<>>
    /\ written = {}
    /\ all_samples = <<>>

\* the corpus processor after its construction, before any call
NoQuery == [op |-> "none", index |-> 0, result |-> <<>>]
NoCorpusCall ==
    /\ corpus_directory = <<>>
    /\ file_list = <<>>
    /\ cpc = "none"
    /\ corpus_file_no = 0
    /\ line_query = NoQuery

\* no call outside the composer, the loader and the generator is in progress
NoOtherCall == NoCorpusCall /\ pipeline = NoPipeline /\ NoParallelCall

NoArgs == [threshold |-> 0, margin |-> 0]

\* no call is in progress
Idle ==
    /\ text = <<>>
    /\ font_style = None
    /\ add_background = FALSE
    /\ apply_augmentation = FALSE
    /\ pos = 0
    /\ char_image_list = <<>>
    /\ filtered_text = <<>>
    /\ prev_image = NoImage
    /\ line_image = NoImage
    /\ background = NoImage
    /\ stages = <<>>
    /\ lookups = 0
    /\ ret = NoResult
    /\ ip_args = NoArgs

Init ==
    /\ \E cfg \in Configs :
        /\ char_images = cfg[1]
        /\ background_images = cfg[2]
    /\ pc = "idle"
    /\ Idle
    /\ LoaderReady /\ NoUtilityCall /\ NoGeneration /\ NoOtherCall

\* the call, up to the return of line 236 or the start of the loop
Call ==
    /\ pc = "idle"
    /\ \E t \in Texts, s \in Styles, bg \in BOOLEAN, aug \in BOOLEAN :
        /\ text' = t
        /\ font_style' = s
        /\ add_background' = bg
        /\ apply_augmentation' = aug
        /\ pc' = IF strip(t) = <<>> THEN "done" ELSE "loop"
    /\ pos' = 0
    /\ char_image_list' = <<>>
    /\ filtered_text' = <<>>
    /\ prev_image' = NoImage
    /\ line_image' = NoImage
    /\ background' = NoImage
    /\ stages' = <<>>
    /\ lookups' = 0
    /\ ret' = NoResult
    /\ UNCHANGED <<ip_args, char_images, background_images>>
    /\ UNCHANGED <<loader_vars, util_vars, gen_vars, aux_vars>>

\* one iteration of the loop of lines 243-255
NextChar ==
    /\ pc = "loop"
    /\ pos < Len(text)
    /\ LET ch == text[pos + 1] IN
        IF isspace(ch)
        THEN /\ char_image_list' =
                    Append(char_image_list, space_image)
             /\ filtered_text' = Append(filtered_text, ch)
             /\ lookups' = lookups
        ELSE \E char_img \in get_character_image(char_images, ch, font_style) :
             /\ lookups' = lookups + 1
             /\ IF char_img # NoImage
                THEN /\ char_image_list' = Append(char_image_list, char_img)
                     /\ filtered_text' = Append(filtered_text, ch)
                ELSE UNCHANGED <<char_image_list, filtered_text>>
    /\ pos' = pos + 1
    /\ UNCHANGED <<ip_args, char_images, background_images, pc, text, font_style,
                   add_background, apply_augmentation, prev_image, line_image,
                   background, stages, ret>>
    /\ UNCHANGED <<loader_vars, util_vars, gen_vars, aux_vars>>

\* lines 257-258: the end of the loop
EndLoop ==
    /\ pc = "loop"
    /\ pos = Len(text)
    /\ pc' = IF char_image_list = <<>> THEN "done" ELSE "concat"
    /\ UNCHANGED <<ip_args, char_images, background_images, text, font_style,
                   add_background, apply_augmentation, pos, char_image_list,
                   filtered_text, prev_image, line_image, background, stages,
                   lookups, ret>>
    /\ UNCHANGED <<loader_vars, util_vars, gen_vars, aux_vars>>

\* lines 261-264
Concatenate ==
    /\ pc = "concat"
    /\ line_image' = _concatenate_character_images(char_image_list)
    /\ pc' = IF line_image' = NoImage THEN "done" ELSE "crop"
    /\ stages' = Append(stages, "assemble")
    /\ char_images' = store_after_padding(char_images, filtered_text, char_image_list)
    /\ UNCHANGED <<ip_args, background_images, text, font_style,
                   add_background, apply_augmentation, pos, char_image_list,
                   filtered_text, prev_image, background, lookups, ret>>
    /\ UNCHANGED <<loader_vars, util_vars, gen_vars, aux_vars>>

\* line 267
Crop ==
    /\ pc = "crop"
    /\ line_image' \in _crop_whitespace(line_image)
    /\ prev_image' = line_image
    /\ pc' = "background"
    /\ stages' = Append(stages, "crop")
    /\ UNCHANGED <<ip_args, char_images, background_images, text, font_style,
                   add_background, apply_augmentation, pos, char_image_list,
                   filtered_text, background, lookups, ret>>
    /\ UNCHANGED <<loader_vars, util_vars, gen_vars, aux_vars>>

\* lines 270-271, _add_background and _blend_with_background
AddBackground ==
    /\ pc = "background"
    /\ IF add_background /\ background_images # <<>>
       THEN \E k \in 1..Len(background_images) :
            \E bg \in resized_background(line_image, background_images[k]) :
                /\ background' = bg
                /\ line_image' = overlay(line_image, bg, blend_threshold)
                /\ prev_image' = line_image
                /\ stages' = Append(stages, "blend")
                /\ background_images' =
                        [background_images EXCEPT ![k] = background_after_blend(@, bg)]
       ELSE UNCHANGED <<background, line_image, prev_image, stages, background_images>>
    /\ pc' = "augment"
    /\ UNCHANGED <<ip_args, char_images, text, font_style,
                   add_background, apply_augmentation, pos, char_image_list,
                   filtered_text, lookups, ret>>
    /\ UNCHANGED <<loader_vars, util_vars, gen_vars, aux_vars>>

\* lines 274-277
Augment ==
    /\ pc = "augment"
    /\ IF apply_augmentation
       THEN \E b_on \in BOOLEAN, n_on \in BOOLEAN, g_on \in BOOLEAN :
            \E factor \in BrightnessFactors, amp \in NoiseAmplitudes :
                /\ line_image' =
                       _apply_augmentation(line_image, b_on, factor, n_on, amp, g_on)
                /\ prev_image' = line_image
                /\ stages' = Append(stages, "augment") \o applied_transforms(b_on, n_on, g_on)
       ELSE UNCHANGED <<line_image, prev_image, stages>>
    /\ ret' = [image |-> line_image', text |-> filtered_text]
    /\ pc' = "done"
    /\ UNCHANGED <<ip_args, char_images, background_images, text, font_style,
                   add_background, apply_augmentation, pos, char_image_list,
                   filtered_text, background, lookups>>
    /\ UNCHANGED <<loader_vars, util_vars, gen_vars, aux_vars>>

\* the caller takes the returned pair; the composer is ready for the next call
Return ==
    /\ pc = "done"
    /\ pc' = "idle"
    /\ text' = <<>>
    /\ font_style' = None
    /\ add_background' = FALSE
    /\ apply_augmentation' = FALSE
    /\ pos' = 0
    /\ char_image_list' = <<>>
    /\ filtered_text' = <<>>
    /\ prev_image' = NoImage
    /\ line_image' = NoImage
    /\ background' = NoImage
    /\ stages' = <<>>
    /\ lookups' = 0
    /\ ret' = NoResult
    /\ UNCHANGED <<ip_args, char_images, background_images>>
    /\ UNCHANGED <<loader_vars, util_vars, gen_vars, aux_vars>>

Next == Call \/ Return \/ NextChar \/ EndLoop \/ Concatenate \/ Crop \/ AddBackground \/ Augment

Spec == Init /\ [][Next]_vars


----------------------------------------------------------------------------
(* The stages on their own, each run on every input of a bounded set *)

\* a glyph whose pixel (r, c) carries the value 10 * r + c
TaggedGlyph(h, w) == [r \in 1..h |-> [c \in 1..w |-> 10 * r + c]]

Glyphs == {TaggedGlyph(h, w) : h \in 1..MaxGlyphH, w \in 1..MaxGlyphW}

GlyphSequences == UNION {[1..n -> Glyphs] : n \in 1..MaxSeq}

InitConcat ==
    /\ char_images = EmptyStore
    /\ background_images = <<>>
    /\ pc = "concat"
    /\ text = <<>>
    /\ font_style = None
    /\ add_background = FALSE
    /\ apply_augmentation = FALSE
    /\ pos = 0
    /\ char_image_list \in GlyphSequences
    /\ filtered_text = <<>>
    /\ prev_image = NoImage
    /\ line_image = NoImage
    /\ background = NoImage
    /\ stages = <<>>
    /\ lookups = 0
    /\ ret = NoResult
    /\ ip_args = NoArgs
    /\ LoaderReady /\ NoUtilityCall /\ NoGeneration /\ NoOtherCall

SpecConcat == InitConcat /\ [][Concatenate]_vars

\* an h x w picture with ink at the pixels number p and q (row by row):
\* 0 at p, 229 at q, and 230 or 255 everywhere else
PaperValue(r, c) == IF (r + c) % 2 = 0 THEN 255 ELSE 230

MarkedImage(h, w, p, q) ==
    [r \in 1..h |-> [c \in 1..w |->
        IF (r - 1) * w + c = q THEN 229
        ELSE IF (r - 1) * w + c = p THEN 0
        ELSE PaperValue(r, c)]]

\* p = q = 0 marks no pixel
CropImages ==
    {MarkedImage(d[1], d[2], pq[1], pq[2]) :
        d \in (1..MaxCropH) \X (1..MaxCropW),
        pq \in {x \in (0..(MaxCropH * MaxCropW)) \X (0..(MaxCropH * MaxCropW)) :
                    x[1] <= x[2]}}

InitCrop ==
    /\ char_images = EmptyStore
    /\ background_images = <<>>
    /\ pc = "crop"
    /\ text = <<>>
    /\ font_style = None
    /\ add_background = FALSE
    /\ apply_augmentation = FALSE
    /\ pos = 0
    /\ char_image_list = <<>>
    /\ filtered_text = <<>>
    /\ prev_image = NoImage
    /\ line_image \in CropImages
    /\ background = NoImage
    /\ stages = <<>>
    /\ lookups = 0
    /\ ret = NoResult
    /\ ip_args = NoArgs
    /\ LoaderReady /\ NoUtilityCall /\ NoGeneration /\ NoOtherCall

\* the arguments ImageProcessor.crop_whitespace is called with
IPThresholds == {200, 230}
IPMargins == {0, 2}

\* ImageProcessor.crop_whitespace(image, threshold, margin)
IPCrop ==
    /\ pc = "crop"
    /\ \E threshold \in IPThresholds, margin \in IPMargins :
        /\ ip_args' = [threshold |-> threshold, margin |-> margin]
        /\ line_image' = crop_whitespace(line_image, threshold, margin)
    /\ prev_image' = line_image
    /\ pc' = "ip_done"
    /\ stages' = Append(stages, "ip_crop")
    /\ UNCHANGED <<char_images, background_images, text, font_style,
                   add_background, apply_augmentation, pos, char_image_list,
                   filtered_text, background, lookups, ret>>
    /\ UNCHANGED <<loader_vars, util_vars, gen_vars, aux_vars>>

NextCrop == Crop \/ IPCrop

SpecCrop == InitCrop /\ [][NextCrop]_vars

\* line images: white with up to two pixels on either side of the blend threshold
FgValues == {0, 179, 180}

FgImage(h, w, p, vp, q, vq) ==
    [r \in 1..h |-> [c \in 1..w |->
        IF (r - 1) * w + c = q THEN vq
        ELSE IF (r - 1) * w + c = p THEN vp
        ELSE WHITE]]

FgImages ==
    {FgImage(d[1], d[2], pq[1], v[1], pq[2], v[2]) :
        d \in (1..MaxFg) \X (1..MaxFg),
        pq \in {x \in (0..(MaxFg * MaxFg)) \X (0..(MaxFg * MaxFg)) : x[1] <= x[2]},
        v \in FgValues \X FgValues}

\* backgrounds: uniform, or with the value 100 + 10 * r + c at pixel (r, c)
BgImages ==
    {Full(d[1], d[2], 200) : d \in (1..MaxBg) \X (1..MaxBg)}
        \cup {[r \in 1..d[1] |-> [c \in 1..d[2] |-> 100 + 10 * r + c]] :
                d \in (1..MaxBg) \X (1..MaxBg)}

InitBlend ==
    /\ char_images = EmptyStore
    /\ \E bg \in BgImages : background_images = <<bg>>
    /\ pc = "background"
    /\ text = <<>>
    /\ font_style = None
    /\ add_background = TRUE
    /\ apply_augmentation = FALSE
    /\ pos = 0
    /\ char_image_list = <<>>
    /\ filtered_text = <<>>
    /\ prev_image = NoImage
    /\ line_image \in FgImages
    /\ background = NoImage
    /\ stages = <<>>
    /\ lookups = 0
    /\ ret = NoResult
    /\ ip_args = NoArgs
    /\ LoaderReady /\ NoUtilityCall /\ NoGeneration /\ NoOtherCall

SpecBlend == InitBlend /\ [][AddBackground]_vars

\* images for the augmentation: black, mid-grey and white pixels
AugPixels == {0, 128, 255}

AugImages ==
    UNION {[1..d[1] -> [1..d[2] -> AugPixels]] : d \in (1..MaxAug) \X (1..MaxAug)}

InitAugment ==
    /\ char_images = EmptyStore
    /\ background_images = <<>>
    /\ pc = "augment"
    /\ text = <<>>
    /\ font_style = None
    /\ add_background = FALSE
    /\ apply_augmentation = TRUE
    /\ pos = 0
    /\ char_image_list = <<>>
    /\ filtered_text = <<>>
    /\ prev_image = NoImage
    /\ line_image \in AugImages
    /\ background = NoImage
    /\ stages = <<>>
    /\ lookups = 0
    /\ ret = NoResult
    /\ ip_args = NoArgs
    /\ LoaderReady /\ NoUtilityCall /\ NoGeneration /\ NoOtherCall

\* DataAugmentation.adjust_brightness_contrast(image) with its two draws
BrightnessContrast ==
    /\ pc = "augment"
    /\ \E brightness \in BCFactors, contrast \in BCFactors :
        /\ bc_args' = [brightness |-> brightness, contrast |-> contrast]
        /\ line_image' = adjust_brightness_contrast(line_image, brightness, contrast)
    /\ prev_image' = line_image
    /\ pc' = "bc_done"
    /\ stages' = Append(stages, "brightness_contrast")
    /\ UNCHANGED <<ip_args, char_images, background_images, text, font_style,
                   add_background, apply_augmentation, pos, char_image_list,
                   filtered_text, background, lookups, ret>>
    /\ UNCHANGED <<loader_vars, available_chars, filtered_chars, gen_vars, aux_vars>>

NextAugment == Augment \/ BrightnessContrast

SpecAugment == InitAugment /\ [][NextAugment]_vars


----------------------------------------------------------------------------
(* CharacterImageLoader: the dictionary file and the image directory.       *)
(* A line and a file name are sequences of one-character strings.           *)

\* sub in s
contains(s, sub) ==
    \E i \in 1..(Len(s) - Len(sub) + 1) : SubSeq(s, i, i + Len(sub) - 1) = sub

\* 1-based index of the first occurrence of sub in s (s holds one)
find(s, sub) ==
    CHOOSE i \in 1..(Len(s) - Len(sub) + 1) :
        /\ SubSeq(s, i, i + Len(sub) - 1) = sub
        /\ \A j \in 1..(i - 1) : SubSeq(s, j, j + Len(sub) - 1) # sub

\* s.split(sep)
RECURSIVE split(_, _)
split(s, sep) ==
    IF ~contains(s, sep) THEN <<s>>
    ELSE LET i == find(s, sep) IN
         <<SubSeq(s, 1, i - 1)>> \o split(SubSeq(s, i + Len(sep), Len(s)), sep)

\* s.endswith(suffix)
endswith(s, suffix) ==
    Len(s) >= Len(suffix) /\ SubSeq(s, Len(s) - Len(suffix) + 1, Len(s)) = suffix

\* the Python string of a sequence of characters
RECURSIVE join(_)
join(s) == IF s = <<>> THEN "" ELSE s[1] \o join(Tail(s))

Digits == {"0", "1", "2", "3", "4", "5", "6", "7", "8", "9"}

DigitValue ==
    [d \in Digits |->
        CASE d = "0" -> 0 [] d = "1" -> 1 [] d = "2" -> 2 [] d = "3" -> 3
          [] d = "4" -> 4 [] d = "5" -> 5 [] d = "6" -> 6 [] d = "7" -> 7
          [] d = "8" -> 8 [] d = "9" -> 9]

\* s.isdigit()
isdigit(s) == s # <<>> /\ \A k \in 1..Len(s) : s[k] \in Digits

RECURSIVE decimal(_)
decimal(s) ==
    IF s = <<>> THEN 0 ELSE 10 * decimal(SubSeq(s, 1, Len(s) - 1)) + DigitValue[s[Len(s)]]

\* what int(s) accepts: blanks around an optional sign and decimal digits
unsigned(s) == IF s # <<>> /\ s[1] \in {"+", "-"} THEN Tail(s) ELSE s
is_int(s) == isdigit(unsigned(strip(s)))

\* int(s), for is_int(s)
int(s) ==
    LET t == strip(s) IN
    IF t[1] = "-" THEN 0 - decimal(Tail(t)) ELSE decimal(unsigned(t))

\* d[key] = value of a Python dict
put(d, key, value) ==
    [x \in (DOMAIN d) \cup {key} |-> IF x = key THEN value ELSE d[x]]

separator == <<" ", ":", " ">>

\* which lines of the file are read: the whole loop body on one line
\* line 48: only a line holding the separator is parsed
is_parsed(line) == contains(line, separator)

\* line 49: line.strip().split(' : ')
fields(line) == split(strip(line), separator)

\* lines 49-51 raise ValueError when the unpacking or int(code) fails
raises_ValueError(line) ==
    is_parsed(line) /\ (Len(fields(line)) # 2 \/ ~is_int(fields(line)[2]))

\* lines 50 and 51 for a line that parses
dict_entry(d, line) == put(d, join(fields(line)[1]), int(fields(line)[2]))
reverse_entry(rev, line) == put(rev, int(fields(line)[2]), join(fields(line)[1]))

\* mutant: a missing file opens like an empty one
open_fails_Never(file) == FALSE

\* open(path, 'r') raises FileNotFoundError
open_fails(file) == ~file.exists

\* open(self.char_dict_path): line 46
OpenDict ==
    /\ lpc = "start"
    /\ IF open_fails(dict_file)
       THEN /\ error' = "FileNotFoundError"
            /\ lpc' = "failed"
       ELSE /\ error' = error
            /\ lpc' = "dict"
    /\ UNCHANGED <<dict_file, image_dir, char_dict, char_dict_reverse, line_no,
                   file_no, lookup, char_images>>
    /\ UNCHANGED <<background_images, pc, text, font_style, add_background,
                   apply_augmentation, pos, char_image_list, filtered_text,
                   prev_image, line_image, background, stages, lookups, ret,
                   ip_args, util_vars, gen_vars, aux_vars>>

\* one iteration of the loop of lines 47-51
LoadDictLine ==
    /\ lpc = "dict"
    /\ line_no < Len(dict_file.lines)
    /\ LET line == dict_file.lines[line_no + 1] IN
        IF ~is_parsed(line)
        THEN /\ UNCHANGED <<char_dict, char_dict_reverse, error>>
             /\ lpc' = lpc
        ELSE IF raises_ValueError(line)
        THEN /\ UNCHANGED <<char_dict, char_dict_reverse>>
             /\ error' = "ValueError"
             /\ lpc' = "failed"
        ELSE /\ char_dict' = dict_entry(char_dict, line)
             /\ char_dict_reverse' = reverse_entry(char_dict_reverse, line)
             /\ error' = error
             /\ lpc' = lpc
    /\ line_no' = line_no + 1
    /\ UNCHANGED <<dict_file, image_dir, file_no, lookup, char_images>>
    /\ UNCHANGED <<background_images, pc, text, font_style, add_background,
                   apply_augmentation, pos, char_image_list, filtered_text,
                   prev_image, line_image, background, stages, lookups, ret,
                   ip_args, util_vars, gen_vars, aux_vars>>

\* dictionary lines: well-formed ones with a repeated character and a
\* repeated code, and the malformed shapes
Line_a_1 == <<"a", " ", ":", " ", "1">>
Line_b_12 == <<"b", " ", ":", " ", "1", "2">>
Line_a_12 == <<"a", " ", ":", " ", "1", "2">>
Line_b_1 == <<"b", " ", ":", " ", "1">>
Line_NoSeparator == <<"a", ":", "1">>
Line_TwoSeparators == <<"a", " ", ":", " ", "1", " ", ":", " ", "2">>
Line_NotInteger == <<"a", " ", ":", " ", "x">>
Line_BlankChar == <<" ", " ", ":", " ", "1">>
Line_Empty == <<>>

WellFormedLines == {Line_a_1, Line_b_12, Line_a_12, Line_b_1}
MalformedLines ==
    {Line_NoSeparator, Line_TwoSeparators, Line_NotInteger, Line_BlankChar, Line_Empty}
DictLines == WellFormedLines \cup MalformedLines

DictFiles == UNION {[1..n -> DictLines] : n \in 0..MaxDictLines}

\* nothing but the loader is active
OnlyLoader ==
    /\ background_images = <<>>
    /\ pc = "idle"
    /\ Idle
    /\ NoUtilityCall /\ NoGeneration /\ NoOtherCall

\* CharacterImageLoader.__init__ up to the call of _load_char_dict
InitDict ==
    /\ dict_file \in {File(lines) : lines \in DictFiles} \cup {NoFile}
    /\ image_dir = NoDirectory
    /\ char_dict = <<>>
    /\ char_dict_reverse = <<>>
    /\ char_images = EmptyStore
    /\ lpc = "start"
    /\ line_no = 0
    /\ file_no = 0
    /\ error = None
    /\ lookup = NoLookup
    /\ OnlyLoader

NextDict == OpenDict \/ LoadDictLine

SpecDict == InitDict /\ [][NextDict]_vars

----------------------------------------------------------------------------
(* CharacterImageLoader._load_character_images and get_character_image.    *)
(* A file of the image directory is [dir, name, image]: dir is <<>> for a  *)
(* file directly in the directory and the name of the subdirectory for a    *)
(* nested one; image is NoImage when the file does not decode.              *)

Entry(dir, name, image) == [dir |-> dir, name |-> name, image |-> image]

\* the name os.listdir shows for a file: its own, or its subdirectory's
listed_name(f) == IF f.dir = <<>> THEN f.name ELSE f.dir

\* a listed name with the directory it is joined to: <<>> stands for
\* image_directory itself
Listed(dir, name) == [dir |-> dir, name |-> name]

\* mutant: a walk of the whole subtree
os_listdir_Recursive(d) ==
    [k \in 1..Len(d.files) |-> Listed(d.files[k].dir, d.files[k].name)]

\* os.listdir(self.image_directory): every name once
os_listdir(d) ==
    LET names == [k \in 1..Len(d.files) |-> Listed(<<>>, listed_name(d.files[k]))]
        first(k) == \A j \in 1..(k - 1) : names[j] # names[k]
        RECURSIVE keep(_)
        keep(k) ==
            IF k > Len(names) THEN <<>>
            ELSE (IF first(k) THEN <<names[k]>> ELSE <<>>) \o keep(k + 1)
    IN  keep(1)

is_image_name(f) ==
    endswith(f, <<".", "j", "p", "g">>) \/ endswith(f, <<".", "p", "n", "g">>)

is_image_file(listed) == is_image_name(listed.name)

\* line 64
image_files(d) == SelectSeq(os_listdir(d), is_image_file)

\* lines 78-79, os.path.join and Image.open(filepath).convert('L'): NoImage
\* stands for the exception of a file that does not decode, of a directory
\* and of a missing path
Image_open(d, listed) ==
    IF \E k \in 1..Len(d.files) :
            d.files[k].dir = listed.dir /\ d.files[k].name = listed.name
    THEN (d.files[CHOOSE k \in 1..Len(d.files) :
                d.files[k].dir = listed.dir /\ d.files[k].name = listed.name]).image
    ELSE NoImage

\* line 69
name_parts(filename) == split(filename, <<"_">>)

\* line 71
font_style_of(filename) == join(name_parts(filename)[1])

\* mutant: the code is all the text between the first underscore and the
\* extension
char_code_of_UpToExtension(filename) ==
    LET rest == SubSeq(filename, find(filename, <<"_">>) + 1, Len(filename))
    IN  SubSeq(rest, 1, Len(rest) - 4)

\* line 72: parts[1].split('.')[0]
char_code_of(filename) == split(name_parts(filename)[2], <<".">>)[1]

\* lines 70-77: the character a file name resolves to, "" when it has none
char_of(rev, filename) ==
    IF Len(name_parts(filename)) >= 2
        /\ isdigit(char_code_of(filename))
        /\ decimal(char_code_of(filename)) \in DOMAIN rev
    THEN rev[decimal(char_code_of(filename))]
    ELSE ""

\* lines 81-83
store_image(store, char, style, image) ==
    put(store, char,
        put(IF char \in DOMAIN store THEN store[char] ELSE <<>>, style, image))

\* lines 57-60 and 63-64, after _load_char_dict has read its last line
ListImages ==
    /\ lpc = "dict"
    /\ line_no = Len(dict_file.lines)
    /\ lpc' = IF image_dir.exists THEN "files" ELSE "ready"
    /\ UNCHANGED <<dict_file, image_dir, char_dict, char_dict_reverse, line_no,
                   file_no, error, lookup, char_images>>
    /\ UNCHANGED <<background_images, pc, text, font_style, add_background,
                   apply_augmentation, pos, char_image_list, filtered_text,
                   prev_image, line_image, background, stages, lookups, ret,
                   ip_args, util_vars, gen_vars, aux_vars>>

\* one iteration of the loop of lines 66-85; an exception is caught and
\* printed, and the loop goes on
LoadImageFile ==
    /\ lpc = "files"
    /\ file_no < Len(image_files(image_dir))
    /\ LET listed == image_files(image_dir)[file_no + 1]
           filename == listed.name
           char == char_of(char_dict_reverse, filename)
           image == Image_open(image_dir, listed)
       IN  IF char # "" /\ image # NoImage
           THEN char_images' =
                    store_image(char_images, char, font_style_of(filename), image)
           ELSE char_images' = char_images
    /\ file_no' = file_no + 1
    /\ UNCHANGED <<dict_file, image_dir, char_dict, char_dict_reverse, line_no,
                   lpc, error, lookup>>
    /\ UNCHANGED <<background_images, pc, text, font_style, add_background,
                   apply_augmentation, pos, char_image_list, filtered_text,
                   prev_image, line_image, background, stages, lookups, ret,
                   ip_args, util_vars, gen_vars, aux_vars>>

\* line 87: the loop is over and the constructor returns
EndImages ==
    /\ lpc = "files"
    /\ file_no = Len(image_files(image_dir))
    /\ lpc' = "ready"
    /\ UNCHANGED <<dict_file, image_dir, char_dict, char_dict_reverse, line_no,
                   file_no, error, lookup, char_images>>
    /\ UNCHANGED <<background_images, pc, text, font_style, add_background,
                   apply_augmentation, pos, char_image_list, filtered_text,
                   prev_image, line_image, background, stages, lookups, ret,
                   ip_args, util_vars, gen_vars, aux_vars>>

LookupChars == {"a", "b", "c"}
LookupStyles == {None, "f", "g"}

\* a call of get_character_image on the loaded store
Lookup ==
    /\ lpc = "ready"
    /\ \E ch \in LookupChars, style \in LookupStyles :
        \E image \in get_character_image(char_images, ch, style) :
            lookup' = [char |-> ch, font_style |-> style, image |-> image]
    /\ UNCHANGED <<dict_file, image_dir, char_dict, char_dict_reverse, line_no,
                   file_no, lpc, error, char_images>>
    /\ UNCHANGED <<background_images, pc, text, font_style, add_background,
                   apply_augmentation, pos, char_image_list, filtered_text,
                   prev_image, line_image, background, stages, lookups, ret,
                   ip_args, util_vars, gen_vars, aux_vars>>

\* file names
Name_f_12 == <<"f", "_", "1", "2", ".", "j", "p", "g">>
Name_g_12 == <<"g", "_", "1", "2", ".", "p", "n", "g">>
Name_f_1 == <<"f", "_", "1", ".", "j", "p", "g">>
Name_f_12_3 == <<"f", "_", "1", "2", "_", "3", ".", "j", "p", "g">>
Name_f_12_5 == <<"f", "_", "1", "2", ".", "5", ".", "p", "n", "g">>
Name_f_x == <<"f", "_", "x", ".", "j", "p", "g">>
Name_f12 == <<"f", "1", "2", ".", "j", "p", "g">>
Name_f_12_txt == <<"f", "_", "1", "2", ".", "t", "x", "t">>
Name_f_7 == <<"f", "_", "7", ".", "j", "p", "g">>

FileNames ==
    <<Name_f_12, Name_g_12, Name_f_1, Name_f_12_3, Name_f_12_5, Name_f_x,
      Name_f12, Name_f_12_txt, Name_f_7>>

\* the k-th name holds a one-pixel image of value 10 k
PixelOf(k) == Full(1, 1, 10 * k)

SubDirectory == <<"s", "u", "b">>

\* every name as a decodable file of the directory, the first one also as
\* a file that does not decode and as a file of a subdirectory
FileEntries ==
    {Entry(<<>>, FileNames[k], PixelOf(k)) : k \in 1..Len(FileNames)}
        \cup {Entry(<<>>, Name_f_12, NoImage), Entry(SubDirectory, Name_f_12, PixelOf(1))}

\* no two files of a directory have the same path
DistinctPaths(files) ==
    \A j \in 1..Len(files), k \in 1..Len(files) :
        (j # k) => ~(files[j].dir = files[k].dir /\ files[j].name = files[k].name)

Directories ==
    {Directory(files) :
        files \in {fs \in UNION {[1..n -> FileEntries] : n \in 0..MaxFiles} :
                        DistinctPaths(fs)}}

\* the dictionary files the whole constructor is run on
LoadDictFiles ==
    {NoFile, File(<<>>), File(<<Line_b_12>>), File(<<Line_a_1, Line_b_12>>),
     File(<<Line_a_1, Line_NotInteger>>)}

\* CharacterImageLoader.__init__, lines 34-38
InitLoad ==
    /\ dict_file \in LoadDictFiles
    /\ image_dir \in Directories \cup {NoDirectory}
    /\ char_dict = <<>>
    /\ char_dict_reverse = <<>>
    /\ char_images = EmptyStore
    /\ lpc = "start"
    /\ line_no = 0
    /\ file_no = 0
    /\ error = None
    /\ lookup = NoLookup
    /\ OnlyLoader

NextLoad == OpenDict \/ LoadDictLine \/ ListImages \/ LoadImageFile \/ EndImages \/ Lookup

SpecLoad == InitLoad /\ [][NextLoad]_vars

----------------------------------------------------------------------------
(* CorpusProcessor.filter_available_text *)

\* char in available_chars, for a list
in_list(ch, list) == \E k \in 1..Len(list) : list[k] = ch

\* mutant: whitespace is kept only when it is in the list
RECURSIVE filter_available_text_NoWhitespace(_, _)
filter_available_text_NoWhitespace(t, list) ==
    IF t = <<>> THEN <<>>
    ELSE (IF in_list(t[1], list) THEN <<t[1]>> ELSE <<>>)
            \o filter_available_text_NoWhitespace(Tail(t), list)

\* lines 181-185: the loop over the characters of text
RECURSIVE filter_available_text(_, _)
filter_available_text(t, list) ==
    IF t = <<>> THEN <<>>
    ELSE (IF in_list(t[1], list) \/ isspace(t[1]) THEN <<t[1]>> ELSE <<>>)
            \o filter_available_text(Tail(t), list)

FilterAlphabet == {"A", "B", "X", " ", "\t"}
FilterTexts == UNION {[1..n -> FilterAlphabet] : n \in 0..MaxText}
AvailableLists == UNION {[1..n -> {"A", "B"}] : n \in 0..MaxAvailable}

InitFilter ==
    /\ char_images = EmptyStore
    /\ background_images = <<>>
    /\ pc = "filter"
    /\ text \in FilterTexts
    /\ available_chars \in AvailableLists
    /\ filtered_chars = <<>>
    /\ bc_args = NoFactors
    /\ font_style = None
    /\ add_background = FALSE
    /\ apply_augmentation = FALSE
    /\ pos = 0
    /\ char_image_list = <<>>
    /\ filtered_text = <<>>
    /\ prev_image = NoImage
    /\ line_image = NoImage
    /\ background = NoImage
    /\ stages = <<>>
    /\ lookups = 0
    /\ ret = NoResult
    /\ ip_args = NoArgs
    /\ LoaderReady /\ NoGeneration /\ NoOtherCall

\* CorpusProcessor.filter_available_text(text, available_chars)
FilterText ==
    /\ pc = "filter"
    /\ filtered_chars' = filter_available_text(text, available_chars)
    /\ pc' = "filtered"
    /\ UNCHANGED <<ip_args, char_images, background_images, text, font_style,
                   add_background, apply_augmentation, pos, char_image_list,
                   filtered_text, prev_image, line_image, background, stages,
                   lookups, ret>>
    /\ UNCHANGED <<loader_vars, bc_args, available_chars, gen_vars, aux_vars>>

SpecFilter == InitFilter /\ [][FilterText]_vars

----------------------------------------------------------------------------
(* HandwritingLineGenerator.generate_line_samples *)

max_text_length == 20
min_random_length == 3

\* text[start_idx:start_idx + 20] for the start_idx of line 445, 0-based
text_windows(line) ==
    IF Len(line) > max_text_length
    THEN {SubSeq(line, start_idx + 1, start_idx + max_text_length) :
            start_idx \in 0..Max2(0, Len(line) - max_text_length)}
    ELSE {line}

\* ''.join(random.choices(available_chars, k=text_length))
random_texts(available) ==
    UNION {[1..n -> available] : n \in min_random_length..MaxRandomLen}

\* f"{i:06d}"
RECURSIVE digits_of(_)
digits_of(n) ==
    IF n < 10 THEN <<n>> ELSE Append(digits_of(n \div 10), n % 10)
zero_padded(n, width) ==
    [k \in 1..(width - Len(digits_of(n))) |-> 0] \o digits_of(n)

\* mutant: every sample is given the name of index 0
filename_of_Fixed(i) == [prefix |-> "line_", number |-> zero_padded(0, 6), ext |-> ".jpg"]

\* f"line_{i:06d}.jpg"
filename_of(i) == [prefix |-> "line_", number |-> zero_padded(i, 6), ext |-> ".jpg"]

\* mutant: whatever compose_line_image returns is persisted
is_persisted_Always(image, actual_text) == TRUE

\* line 463: line_image is not None and actual_text
is_persisted(image, actual_text) == image # NoImage /\ actual_text # <<>>

\* lines 471-477; image.size is (width, height)
metadata_of(i, image, actual_text, original_text) ==
    [filename |-> filename_of(i),
     text |-> actual_text,
     original_text |-> original_text,
     image_size |-> IF image = NoImage THEN <<0, 0>> ELSE <<Width(image), Height(image)>>]

\* index i persisted nothing: the continue of line 451, an exception, or a
\* composition that returned no image or no text
Skipped(i, why) == [index |-> i, why |-> why]

\* the head of one iteration, lines 439-461: the text is drawn and
\* compose_line_image is entered, or the iteration ends at the continue of
\* line 451
GenText ==
    /\ gpc = "iterate"
    /\ sample_index < num_samples
    /\ pc = "idle"
    /\ IF ~(use_corpus /\ corpus_lines # <<>>) /\ get_available_characters(char_images) = {}
       THEN /\ sample_index' = sample_index + 1
            /\ skipped_indices' = Append(skipped_indices, Skipped(sample_index, "continue"))
            /\ UNCHANGED <<gpc, pc, text, font_style, add_background, apply_augmentation>>
       ELSE /\ \E t \in
                    (IF use_corpus /\ corpus_lines # <<>>
                     THEN UNION {text_windows(corpus_lines[k]) : k \in 1..Len(corpus_lines)}
                     ELSE random_texts(get_available_characters(char_images))) :
                /\ text' = t
                /\ pc' = IF strip(t) = <<>> THEN "done" ELSE "loop"
            /\ font_style' = None
            /\ add_background' = config.add_background
            /\ apply_augmentation' = config.apply_augmentation
            /\ gpc' = "compose"
            /\ sample_index' = sample_index
            /\ skipped_indices' = skipped_indices
    /\ UNCHANGED <<pos, char_image_list, filtered_text, prev_image, line_image,
                   background, stages, lookups, ret, ip_args, char_images,
                   background_images>>
    /\ UNCHANGED <<corpus_lines, use_corpus, num_samples, samples_metadata,
                   labels_file, config, output_files, loader_vars, util_vars,
                   aux_vars>>

\* the exceptions an iteration can raise: subclasses of Exception
Exceptions == {"OSError", "ValueError"}

\* mutant: no exception is caught inside the loop
is_caught_Never(exception) == FALSE

\* line 479: except Exception
is_caught(exception) == exception \in Exceptions

\* the compose state of the iteration is dropped
ComposeLeft ==
    /\ pc' = "idle"
    /\ text' = <<>>
    /\ font_style' = None
    /\ add_background' = FALSE
    /\ apply_augmentation' = FALSE
    /\ pos' = 0
    /\ char_image_list' = <<>>
    /\ filtered_text' = <<>>
    /\ prev_image' = NoImage
    /\ line_image' = NoImage
    /\ background' = NoImage
    /\ stages' = <<>>
    /\ lookups' = 0
    /\ ret' = NoResult

\* lines 479-480: an exception raised inside compose_line_image ends the
\* iteration; the loop goes on with the next index when it is caught
GenExcept ==
    /\ gpc = "compose"
    /\ pc \notin {"idle", "done"}
    /\ \E exception \in Exceptions :
        IF is_caught(exception)
        THEN /\ sample_index' = sample_index + 1
             /\ skipped_indices' = Append(skipped_indices, Skipped(sample_index, exception))
             /\ gpc' = "iterate"
        ELSE /\ gpc' = "aborted"
             /\ UNCHANGED <<sample_index, skipped_indices>>
    /\ ComposeLeft
    /\ UNCHANGED <<ip_args, char_images, background_images>>
    /\ UNCHANGED <<corpus_lines, use_corpus, num_samples, samples_metadata,
                   labels_file, config, output_files, loader_vars, util_vars,
                   aux_vars>>

\* the tail of the iteration, lines 463-480: the pair returned by
\* compose_line_image is persisted or skipped; saved is FALSE when
\* line_image.save raises OSError, and Image.save then removes the file it
\* had created
GenPersist ==
    /\ gpc = "compose"
    /\ pc = "done"
    /\ \E saved \in BOOLEAN :
        IF is_persisted(ret.image, ret.text) /\ saved
        THEN /\ samples_metadata' =
                    Append(samples_metadata,
                           metadata_of(sample_index, ret.image, ret.text, text))
             /\ output_files' = output_files \cup {filename_of(sample_index)}
             /\ sample_index' = sample_index + 1
             /\ gpc' = "iterate"
             /\ UNCHANGED skipped_indices
        ELSE IF is_persisted(ret.image, ret.text) /\ ~is_caught("OSError")
        THEN /\ gpc' = "aborted"
             /\ UNCHANGED <<samples_metadata, sample_index, skipped_indices,
                            output_files>>
        ELSE /\ samples_metadata' = samples_metadata
             /\ output_files' = output_files
             /\ skipped_indices' =
                    Append(skipped_indices,
                           Skipped(sample_index,
                                   IF is_persisted(ret.image, ret.text)
                                   THEN "OSError" ELSE "nothing returned"))
             /\ sample_index' = sample_index + 1
             /\ gpc' = "iterate"
    /\ ComposeLeft
    /\ UNCHANGED <<ip_args, char_images, background_images>>
    /\ UNCHANGED <<corpus_lines, use_corpus, num_samples, labels_file, config,
                   loader_vars, util_vars, aux_vars>>

\* lines 482-488: labels.json is written and the list is returned
GenFinish ==
    /\ gpc = "iterate"
    /\ sample_index = num_samples
    /\ labels_file' = File(samples_metadata)
    /\ gpc' = "finished"
    /\ UNCHANGED <<pc, text, font_style, add_background, apply_augmentation, pos,
                   char_image_list, filtered_text, prev_image, line_image,
                   background, stages, lookups, ret, ip_args, char_images,
                   background_images>>
    /\ UNCHANGED <<corpus_lines, use_corpus, num_samples, sample_index,
                   samples_metadata, config, skipped_indices, output_files,
                   loader_vars, util_vars, aux_vars>>

\* corpus lines as load_corpus_files keeps them: stripped and not empty;
\* the last one is longer than 20 characters
LongLine == [k \in 1..21 |-> IF k = 21 THEN "B" ELSE "A"]

Corpora ==
    {<<>>, <<<<"A", "B">>>>, <<<<"A", "B">>, <<"X", " ", "X">>>>, <<LongLine>>}

GenStores == {EmptyStore, MixedStore}

\* generate_line_samples is entered, lines 433-437
InitGen ==
    /\ char_images \in GenStores
    /\ background_images = <<SmallBackground>>
    /\ corpus_lines \in Corpora
    /\ use_corpus \in BOOLEAN
    /\ num_samples \in 0..MaxSamples
    /\ config \in [add_background : BOOLEAN, apply_augmentation : BOOLEAN]
    /\ sample_index = 0
    /\ samples_metadata = <<>>
    /\ skipped_indices = <<>>
    /\ output_files = {}
    /\ labels_file = NoFile
    /\ gpc = "iterate"
    /\ pc = "idle"
    /\ Idle
    /\ LoaderReady /\ NoUtilityCall /\ NoOtherCall

NextGen ==
    \/ GenText \/ GenExcept \/ GenPersist \/ GenFinish
    \/ NextChar \/ EndLoop \/ Concatenate \/ Crop \/ AddBackground \/ Augment

SpecGen == InitGen /\ [][NextGen]_vars

\* the runs whose end is checked: short corpus lines, both flags on or both off
InitGenLive ==
    /\ InitGen
    /\ corpus_lines \in {<<>>, <<<<"A", "B">>, <<"X", " ", "X">>>>}
    /\ config.add_background = config.apply_augmentation

\* the loop of line 439 is sequential code: a step that can be taken is taken
SpecGenLive == InitGenLive /\ [][NextGen]_vars /\ WF_vars(NextGen)

----------------------------------------------------------------------------
(* CorpusProcessor.load_corpus_files, get_random_line and get_line_by_index. *)
(* A line of a file is a sequence of one-character strings that ends with   *)
(* "\n", except for a last line without a line end.                         *)

\* os.path.exists(os.path.join(corpus_directory, filename))
corpus_file_exists(dir, filename) == filename \in DOMAIN dir

\* lines 153-156: the stripped lines of one file that are not empty, in file order
RECURSIVE stripped_lines(_)
stripped_lines(lines) ==
    IF lines = <<>> THEN <<>>
    ELSE (IF strip(Head(lines)) # <<>> THEN <<strip(Head(lines))>> ELSE <<>>)
            \o stripped_lines(Tail(lines))

\* mutant: the index is only checked against the length, so that a negative
\* index counts from the end of the list
get_line_by_index_NoLowerBound(lines, index) ==
    IF index < Len(lines)
    THEN (IF index >= 0 THEN lines[index + 1]
          ELSE IF Len(lines) + index >= 0 THEN lines[Len(lines) + index + 1]
          ELSE <<>>)
    ELSE <<>>

\* lines 164-168; index is 0-based
get_line_by_index(lines, index) ==
    IF 0 <= index /\ index < Len(lines) THEN lines[index + 1] ELSE <<>>

\* lines 158-162: the lines random.choice can return, or "" alone
get_random_line(lines) ==
    IF lines = <<>> THEN {<<>>} ELSE {lines[k] : k \in 1..Len(lines)}

\* line 147: the list is emptied before the files are read
LoadCorpusFiles ==
    /\ cpc \in {"constructed", "loaded"}
    /\ corpus_lines' = <<>>
    /\ corpus_file_no' = 0
    /\ cpc' = "loading"
    /\ line_query' = [op |-> "load_corpus_files", index |-> 0, result |-> <<>>]
    /\ UNCHANGED <<corpus_directory, file_list, pipeline_vars,
                   parallel_vars>>
    /\ UNCHANGED <<ip_args, char_images, background_images, pc, text, font_style,
                   add_background, apply_augmentation, pos, char_image_list,
                   filtered_text, prev_image, line_image, background, stages,
                   lookups, ret>>
    /\ UNCHANGED <<use_corpus, num_samples, sample_index, samples_metadata,
                   labels_file, gpc, config, skipped_indices, output_files,
                   loader_vars, util_vars>>

\* lines 149-156: one file name of file_list
LoadCorpusFile ==
    /\ cpc = "loading"
    /\ corpus_file_no < Len(file_list)
    /\ IF corpus_file_exists(corpus_directory, file_list[corpus_file_no + 1])
       THEN corpus_lines' = corpus_lines \o
                stripped_lines(corpus_directory[file_list[corpus_file_no + 1]])
       ELSE corpus_lines' = corpus_lines
    /\ corpus_file_no' = corpus_file_no + 1
    /\ UNCHANGED <<corpus_directory, file_list, cpc, line_query, pipeline_vars,
                   parallel_vars>>
    /\ UNCHANGED <<ip_args, char_images, background_images, pc, text, font_style,
                   add_background, apply_augmentation, pos, char_image_list,
                   filtered_text, prev_image, line_image, background, stages,
                   lookups, ret>>
    /\ UNCHANGED <<use_corpus, num_samples, sample_index, samples_metadata,
                   labels_file, gpc, config, skipped_indices, output_files,
                   loader_vars, util_vars>>

\* line 158: the loop over file_list has ended
EndCorpusFiles ==
    /\ cpc = "loading"
    /\ corpus_file_no = Len(file_list)
    /\ cpc' = "loaded"
    /\ UNCHANGED <<corpus_directory, file_list, corpus_file_no, line_query, pipeline_vars,
                   parallel_vars>>
    /\ UNCHANGED <<ip_args, char_images, background_images, pc, text, font_style,
                   add_background, apply_augmentation, pos, char_image_list,
                   filtered_text, prev_image, line_image, background, stages,
                   lookups, ret>>
    /\ UNCHANGED <<gen_vars, loader_vars, util_vars>>

LineIndices == (0 - 2)..(2 * MaxCorpusLines + 1)

\* get_line_by_index(index), on the processor as constructed or as loaded
GetLineByIndex ==
    /\ cpc \in {"constructed", "loaded"}
    /\ \E index \in LineIndices :
        line_query' = [op |-> "get_line_by_index", index |-> index,
                       result |-> get_line_by_index(corpus_lines, index)]
    /\ UNCHANGED <<corpus_directory, file_list, cpc, corpus_file_no, pipeline_vars,
                   parallel_vars>>
    /\ UNCHANGED <<ip_args, char_images, background_images, pc, text, font_style,
                   add_background, apply_augmentation, pos, char_image_list,
                   filtered_text, prev_image, line_image, background, stages,
                   lookups, ret>>
    /\ UNCHANGED <<gen_vars, loader_vars, util_vars>>

\* get_random_line(), on the processor as constructed or as loaded
GetRandomLine ==
    /\ cpc \in {"constructed", "loaded"}
    /\ \E line \in get_random_line(corpus_lines) :
        line_query' = [op |-> "get_random_line", index |-> 0, result |-> line]
    /\ UNCHANGED <<corpus_directory, file_list, cpc, corpus_file_no, pipeline_vars,
                   parallel_vars>>
    /\ UNCHANGED <<ip_args, char_images, background_images, pc, text, font_style,
                   add_background, apply_augmentation, pos, char_image_list,
                   filtered_text, prev_image, line_image, background, stages,
                   lookups, ret>>
    /\ UNCHANGED <<gen_vars, loader_vars, util_vars>>

RawLines == {<<"A", "B", "\n">>, <<" ", "A", " ", "\n">>, <<" ", "\n">>, <<"B">>}
CorpusFiles == UNION {[1..n -> RawLines] : n \in 0..MaxCorpusLines}
OtherCorpusFiles == {<<<<"B", "\n">>>>, <<<<"\t", "\n">>, <<"A", " ", "B", "\n">>>>}
CorpusFileNames == {"c1.txt", "c2.txt", "missing.txt"}
FileLists == UNION {[1..n -> CorpusFileNames] : n \in 0..MaxFileList}

\* CorpusProcessor.__init__: no line is loaded
InitCorpus ==
    /\ \E f1 \in CorpusFiles, f2 \in OtherCorpusFiles :
        corpus_directory = [n \in {"c1.txt", "c2.txt"} |-> IF n = "c1.txt" THEN f1 ELSE f2]
    /\ file_list \in FileLists
    /\ cpc = "constructed"
    /\ corpus_file_no = 0
    /\ line_query = NoQuery
    /\ pipeline = NoPipeline
    /\ NoParallelCall
    /\ char_images = EmptyStore
    /\ background_images = <<>>
    /\ pc = "idle"
    /\ Idle
    /\ LoaderReady /\ NoUtilityCall /\ NoGeneration

NextCorpus ==
    LoadCorpusFiles \/ LoadCorpusFile \/ EndCorpusFiles \/ GetLineByIndex \/ GetRandomLine

SpecCorpus == InitCorpus /\ [][NextCorpus]_vars

----------------------------------------------------------------------------
(* DataAugmentation.random_augmentation_pipeline and its six transforms.    *)
(* Rotation and perspective warp resample the image; the model keeps their  *)
(* geometry (the enlarged canvas, the pull towards the neighbour and the    *)
(* white border) and replaces the interpolation by the nearest pixel.       *)

\* image.rotate(angle, expand=True, fillcolor=background_color) for an angle
\* of a few degrees on an image of a few pixels: the canvas grows by one
\* pixel on every side, the picture stays in its middle
rotate_image(img, angle, background_color) ==
    IF angle = 0 THEN img
    ELSE [r \in 1..(Height(img) + 2) |-> [c \in 1..(Width(img) + 2) |->
            IF r \in 2..(Height(img) + 1) /\ c \in 2..(Width(img) + 1)
            THEN img[r - 1][c - 1] ELSE background_color]]

\* cv2.warpPerspective(img_array, matrix, (width, height), borderValue=255)
\* for corners moved by less than a pixel: the size is kept and a pixel is
\* drawn towards its right neighbour, the border counting as white
apply_perspective_transform(img, displaced) ==
    IF ~displaced THEN img
    ELSE [r \in 1..Height(img) |-> [c \in 1..Width(img) |->
            (3 * img[r][c] + (IF c < Width(img) THEN img[r][c + 1] ELSE WHITE)) \div 4]]

\* the pixels under the 2 x 2 kernel anchored at its (1, 1)
kernel_values(img, r, c) ==
    {img[rr][cc] : rr \in {r - 1, r} \cap (1..Height(img)),
                   cc \in {c - 1, c} \cap (1..Width(img))}

\* cv2.dilate and cv2.erode with np.ones((2, 2)), one iteration
adjust_stroke_thickness(img, method) ==
    [r \in 1..Height(img) |-> [c \in 1..Width(img) |->
        IF method = "dilate" THEN SetMax(kernel_values(img, r, c))
        ELSE IF method = "erode" THEN SetMin(kernel_values(img, r, c))
        ELSE img[r][c]]]

\* img_array[y, x:x+gap_size] = 255, y and x 0-based
one_gap(img, y, x, gap_size) ==
    [r \in 1..Height(img) |-> [c \in 1..Width(img) |->
        IF r = y + 1 /\ c > x /\ c <= x + gap_size THEN WHITE ELSE img[r][c]]]

GapSizes == {2, 8}      \* random.randint(2, 8)
NumGaps == {1, 2}       \* random.randint(1, 3)

\* the images num_gaps gaps can leave
RECURSIVE add_random_gaps(_, _)
add_random_gaps(img, num_gaps) ==
    IF num_gaps = 0 THEN {img}
    ELSE UNION {add_random_gaps(one_gap(img, y, x, gap_size), num_gaps - 1) :
                    <<y, x, gap_size>> \in
                        {g \in (0..(Height(img) - 1)) \X (0..Width(img)) \X GapSizes :
                            g[2] <= Max2(0, Width(img) - g[3])}}

\* BORDER_REFLECT_101 for an index any distance outside 1..n
RECURSIVE reflect(_, _)
reflect(k, n) ==
    IF n = 1 THEN 1
    ELSE IF k < 1 THEN reflect(2 - k, n)
    ELSE IF k > n THEN reflect(2 * n - k, n)
    ELSE k

\* the 7 taps of cv2.GaussianBlur(img, (0, 0), 1.0), in 256ths
blur_taps == <<1, 14, 62, 102, 62, 14, 1>>

\* apply_blur(image): blur_type "gaussian", strength 1.0
apply_blur(img) ==
    LET h == Height(img)
        w == Width(img)
        rows == [r \in 1..h |-> [c \in 1..w |->
                    LET Tap[t \in 0..7] ==
                            IF t = 0 THEN 0
                            ELSE Tap[t - 1] + blur_taps[t] * img[r][reflect(c + t - 4, w)]
                    IN  Tap[7]]]
    IN  [r \in 1..h |-> [c \in 1..w |->
            LET Tap[t \in 0..7] ==
                    IF t = 0 THEN 0
                    ELSE Tap[t - 1] + blur_taps[t] * rows[reflect(r + t - 4, h)][c]
            IN  clip((Tap[7] + 32768) \div 65536)]]

\* the six transforms in the order of lines 258-274
pipeline_steps ==
    <<"rotate_image", "apply_perspective_transform", "adjust_brightness_contrast",
      "adjust_stroke_thickness", "add_random_gaps", "apply_blur">>

RotationAngles == {0 - 5, 5}      \* random.uniform(-5, 5), in degrees
PipelineFactors == {80, 120}      \* random.uniform(0.8, 1.2), in hundredths

\* the images a transform can return for an image
transformed(name, img) ==
    CASE name = "rotate_image" -> {rotate_image(img, angle, WHITE) : angle \in RotationAngles}
      [] name = "apply_perspective_transform" -> {apply_perspective_transform(img, TRUE)}
      [] name = "adjust_brightness_contrast" ->
            {adjust_brightness_contrast(img, b, c) : b \in PipelineFactors, c \in {100}}
      [] name = "adjust_stroke_thickness" ->
            {adjust_stroke_thickness(img, method) : method \in {"dilate", "erode"}}
      [] name = "add_random_gaps" -> UNION {add_random_gaps(img, n) : n \in NumGaps}
      [] name = "apply_blur" -> {apply_blur(img)}

\* prob_each for the first four transforms, prob_each * 0.3 for gaps and blur;
\* probabilities are in thousandths
threshold_of(k, prob_each) == IF k <= 4 THEN prob_each ELSE (prob_each * 3) \div 10

\* mutant: a draw equal to the threshold applies the transform
is_applied_Inclusive(draw, threshold) == draw <= threshold

\* random.random() < threshold
is_applied(draw, threshold) == draw < threshold

Draws == {0, 200, 999}            \* random.random(), in thousandths
Probabilities == {0, 500, 1000}   \* argument prob_each, in thousandths

\* the k-th if of the pipeline: its draw, and the transform when the draw applies it
PipelineIf(k) ==
    /\ pipeline.step = k
    /\ \E draw \in Draws :
        IF is_applied(draw, threshold_of(k, pipeline.prob_each))
        THEN \E out \in transformed(pipeline_steps[k], pipeline.image) :
                pipeline' = [pipeline EXCEPT
                    !.image = out,
                    !.step = k + 1,
                    !.applied = Append(@, [name |-> pipeline_steps[k],
                                           input |-> pipeline.image,
                                           output |-> out])]
        ELSE pipeline' = [pipeline EXCEPT !.step = k + 1]
    /\ UNCHANGED <<composer_vars, loader_vars, util_vars, gen_vars, corpus_vars,
                   parallel_vars>>

PipelineRotate == PipelineIf(1)
PipelinePerspective == PipelineIf(2)
PipelineBrightnessContrast == PipelineIf(3)
PipelineStrokeThickness == PipelineIf(4)
PipelineGaps == PipelineIf(5)
PipelineBlur == PipelineIf(6)

\* line 276: return image
PipelineReturn ==
    /\ pipeline.step = 7
    /\ pipeline' = [pipeline EXCEPT !.step = 8]
    /\ UNCHANGED <<composer_vars, loader_vars, util_vars, gen_vars, corpus_vars,
                   parallel_vars>>

PipelineImages == {<<<<0, 255>>, <<128, 0>>>>, <<<<255, 0>>, <<0, 128>>>>}

InitPipeline ==
    /\ \E img \in PipelineImages, p \in Probabilities :
        pipeline = [image |-> img, original |-> img, prob_each |-> p, step |-> 1,
                    applied |-> <<>>]
    /\ NoCorpusCall
    /\ NoParallelCall
    /\ char_images = EmptyStore
    /\ background_images = <<>>
    /\ pc = "idle"
    /\ Idle
    /\ LoaderReady /\ NoUtilityCall /\ NoGeneration

NextPipeline ==
    \/ PipelineRotate \/ PipelinePerspective \/ PipelineBrightnessContrast
    \/ PipelineStrokeThickness \/ PipelineGaps \/ PipelineBlur \/ PipelineReturn

SpecPipeline == InitPipeline /\ [][NextPipeline]_vars

----------------------------------------------------------------------------
(* BaseGenerator.generate_parallel and the generate_batch calls it submits. *)
(* A path under output_dir is [dir, name], both of them records of a text   *)
(* and the digits that follow it; dir is "." for output_dir itself.         *)

\* mutant: the number of full batches
num_batches_of_Floor(total, size) == total \div size

\* line 247: (total_samples + batch_size - 1) // batch_size
num_batches_of(total, size) == (total + size - 1) \div size

\* lines 255-257 for batch_idx
current_batch_size(total, size, batch_idx) ==
    Min2(batch_idx * size + size, total) - batch_idx * size

\* os.path.join(output_dir, f"batch_{batch_idx:03d}")
batch_output_dir(batch_idx) == [prefix |-> "batch_", number |-> zero_padded(batch_idx, 3)]

\* f"sample_{batch_idx:03d}"
name_prefix_of(batch_idx) == [prefix |-> "sample_", number |-> zero_padded(batch_idx, 3)]

\* generate_batch: f"{name_prefix}_{i:06d}.{output_format}" inside output_dir
sample_path(dir, name_prefix, i) ==
    [dir |-> dir,
     name |-> [prefix |-> name_prefix.prefix, batch |-> name_prefix.number,
               number |-> zero_padded(i, 6)]]

\* os.path.join(output_dir, "labels.json") of generate_batch, and
\* os.path.join(output_dir, "all_labels.json") of generate_parallel
labels_path(dir) ==
    [dir |-> dir, name |-> [prefix |-> "labels.json", batch |-> <<>>, number |-> <<>>]]
combined_labels_path ==
    [dir |-> [prefix |-> ".", number |-> <<>>],
     name |-> [prefix |-> "all_labels.json", batch |-> <<>>, number |-> <<>>]]

\* the future of a submitted batch with the arguments of its generate_batch call
submitted(total, size, batch_idx) ==
    [batch_size |-> current_batch_size(total, size, batch_idx),
     output_dir |-> batch_output_dir(batch_idx),
     name_prefix |-> name_prefix_of(batch_idx),
     status |-> "pending",
     i |-> 0,
     samples |-> <<>>,
     collected |-> FALSE]

Running == {b \in 1..Len(futures) : futures[b].status = "running"}

\* lines 254-268: one iteration of the loop that submits the batches
Submit ==
    /\ ppc = "submit"
    /\ Len(futures) < num_batches_of(total_samples, batch_size)
    /\ futures' = Append(futures, submitted(total_samples, batch_size, Len(futures)))
    /\ ppc' = IF Len(futures) + 1 = num_batches_of(total_samples, batch_size)
              THEN "collect" ELSE "submit"
    /\ UNCHANGED <<total_samples, batch_size, max_workers, written, all_samples>>
    /\ UNCHANGED <<composer_vars, loader_vars, util_vars, gen_vars, corpus_vars,
                   pipeline_vars>>

\* a worker of the pool takes a pending batch; at most max_workers run at a time
BatchStart ==
    /\ \E b \in 1..Len(futures) :
        /\ futures[b].status = "pending"
        /\ Cardinality(Running) < max_workers
        /\ futures' = [futures EXCEPT ![b].status = "running"]
    /\ UNCHANGED <<total_samples, batch_size, max_workers, ppc, written, all_samples>>
    /\ UNCHANGED <<composer_vars, loader_vars, util_vars, gen_vars, corpus_vars,
                   pipeline_vars>>

\* generate_batch, lines 189-213: one iteration; the sample is saved and
\* recorded, or generate_single_sample raised and the index is skipped
BatchSample ==
    /\ \E b \in 1..Len(futures) :
        /\ futures[b].status = "running"
        /\ futures[b].i < futures[b].batch_size
        /\ \E saved \in BOOLEAN :
            LET path == sample_path(futures[b].output_dir, futures[b].name_prefix,
                                    futures[b].i)
            IN  IF saved
                THEN /\ written' = written \cup {[path |-> path, writer |-> b]}
                     /\ futures' = [futures EXCEPT ![b].i = @ + 1,
                                                   ![b].samples = Append(@, path)]
                ELSE /\ written' = written
                     /\ futures' = [futures EXCEPT ![b].i = @ + 1]
    /\ UNCHANGED <<total_samples, batch_size, max_workers, ppc, all_samples>>
    /\ UNCHANGED <<composer_vars, loader_vars, util_vars, gen_vars, corpus_vars,
                   pipeline_vars>>

\* generate_batch, lines 215-224: labels.json is written and the list returned
BatchReturn ==
    /\ \E b \in 1..Len(futures) :
        /\ futures[b].status = "running"
        /\ futures[b].i = futures[b].batch_size
        /\ written' = written \cup
                {[path |-> labels_path(futures[b].output_dir), writer |-> b]}
        /\ futures' = [futures EXCEPT ![b].status = "done"]
    /\ UNCHANGED <<total_samples, batch_size, max_workers, ppc, all_samples>>
    /\ UNCHANGED <<composer_vars, loader_vars, util_vars, gen_vars, corpus_vars,
                   pipeline_vars>>

\* an exception leaves generate_batch (os.makedirs or the write of
\* labels.json failed): the future holds the exception
BatchFail ==
    /\ \E b \in 1..Len(futures) :
        /\ futures[b].status = "running"
        /\ futures[b].i \in {0, futures[b].batch_size}
        /\ futures' = [futures EXCEPT ![b].status = "failed"]
    /\ UNCHANGED <<total_samples, batch_size, max_workers, ppc, written, all_samples>>
    /\ UNCHANGED <<composer_vars, loader_vars, util_vars, gen_vars, corpus_vars,
                   pipeline_vars>>

\* lines 271-278: as_completed yields a finished future; its samples are
\* added, or its exception is logged
Collect ==
    /\ ppc = "collect"
    /\ \E b \in 1..Len(futures) :
        /\ futures[b].status \in {"done", "failed"}
        /\ ~futures[b].collected
        /\ all_samples' = IF futures[b].status = "done"
                          THEN all_samples \o futures[b].samples
                          ELSE all_samples
        /\ futures' = [futures EXCEPT ![b].collected = TRUE]
    /\ UNCHANGED <<total_samples, batch_size, max_workers, ppc, written>>
    /\ UNCHANGED <<composer_vars, loader_vars, util_vars, gen_vars, corpus_vars,
                   pipeline_vars>>

\* lines 280-286: all futures were collected; all_labels.json is written
ParallelReturn ==
    /\ ppc = "collect"
    /\ \A b \in 1..Len(futures) : futures[b].collected
    /\ written' = written \cup {[path |-> combined_labels_path, writer |-> 0]}
    /\ ppc' = "returned"
    /\ UNCHANGED <<total_samples, batch_size, max_workers, futures, all_samples>>
    /\ UNCHANGED <<composer_vars, loader_vars, util_vars, gen_vars, corpus_vars,
                   pipeline_vars>>

\* generate_parallel is entered with total_samples >= 1 and batch_size >= 1
InitParallel ==
    /\ total_samples \in 1..MaxTotal
    /\ batch_size \in 1..MaxBatch
    /\ max_workers \in 1..2
    /\ ppc = "submit"
    /\ futures = <<>>
    /\ written = {}
    /\ all_samples = <<>>
    /\ NoCorpusCall
    /\ pipeline = NoPipeline
    /\ char_images = EmptyStore
    /\ background_images = <<>>
    /\ pc = "idle"
    /\ Idle
    /\ LoaderReady /\ NoUtilityCall /\ NoGeneration

NextParallel ==
    \/ Submit \/ BatchStart \/ BatchSample \/ BatchReturn \/ BatchFail
    \/ Collect \/ ParallelReturn

SpecParallel == InitParallel /\ [][NextParallel]_vars

----------------------------------------------------------------------------
(* Claims *)

\* what the claims measure, computed from the state alone
HasGlyph(ch) == ch \in DOMAIN char_images /\ DOMAIN char_images[ch] # {}
IsBlank(ch) == ch = " " \/ ch = "\t"
Renderable(ch) == IsBlank(ch) \/ HasGlyph(ch)

RECURSIVE RenderableOf(_)
RenderableOf(t) ==
    IF t = <<>> THEN <<>>
    ELSE IF Renderable(Head(t)) THEN <<Head(t)>> \o RenderableOf(Tail(t))
    ELSE RenderableOf(Tail(t))

Returned == pc = "done"
ReturnedImage == pc = "done" /\ ret.image # NoImage

\* C1: when compose_line_image returns an image, its Label is the subsequence
\* of the text's characters that are whitespace or have a loaded glyph, in
\* order and with multiplicities; the glyph sequence holds one buffer per
\* Label character (a blank for whitespace, a glyph of that very character
\* otherwise), so a character without a glyph is in neither.
C1_LabelIsRenderableSubsequence ==
    ReturnedImage =>
        /\ ret.text = RenderableOf(text)
        /\ Len(ret.text) = Cardinality({k \in 1..Len(text) : Renderable(text[k])})
        /\ Len(char_image_list) = Len(ret.text)
        /\ \A k \in 1..Len(ret.text) :
            IF IsBlank(ret.text[k])
            THEN char_image_list[k] = [r \in 1..32 |-> [c \in 1..20 |-> 255]]
            ELSE \E f \in DOMAIN char_images[ret.text[k]] :
                    char_image_list[k] = char_images[ret.text[k]][f]

\* C1 witness: "AXB" was composed with no glyph for X: Label "AB", two buffers
C1_Witness ==
    /\ ReturnedImage
    /\ text = <<"A", "X", "B">>
    /\ ~HasGlyph("X")
    /\ ret.text = <<"A", "B">>
    /\ Len(char_image_list) = 2

\* C2: a text that is empty or all whitespace returns (None, "") whatever the
\* style and the flags, and no glyph is looked up; a text none of whose
\* characters yields a buffer returns (None, "") as well.
C2_BlankTextReturnsNone ==
    Returned =>
        /\ (\A k \in 1..Len(text) : IsBlank(text[k])) =>
                /\ ret = [image |-> <<>>, text |-> <<>>]
                /\ lookups = 0
                /\ stages = <<>>
        /\ (\A k \in 1..Len(text) : ~Renderable(text[k])) =>
                ret = [image |-> <<>>, text |-> <<>>]

\* C2 witness: an all-whitespace text was composed with both flags set and a
\* style requested, in a run whose store has glyphs
C2_Witness ==
    /\ Returned
    /\ text = <<" ", "\t", " ">>
    /\ add_background /\ apply_augmentation /\ font_style = "s2"
    /\ char_images # <<>>
    /\ ret.image = <<>>

\* C2 second witness state: a text whose characters all lack a glyph
C2_WitnessNoGlyph ==
    /\ Returned
    /\ text = <<"X", "X">>
    /\ lookups = 2
    /\ ret.image = <<>>


\* measurements of a glyph sequence, taken directly from the glyphs
TallestOf(imgs) ==
    CHOOSE m \in {Len(imgs[k]) : k \in 1..Len(imgs)} :
        \A k \in 1..Len(imgs) : Len(imgs[k]) <= m

RECURSIVE WidthsBefore(_, _)
WidthsBefore(imgs, k) ==
    IF k <= 1 THEN 0 ELSE WidthsBefore(imgs, k - 1) + Len(imgs[k - 1][1])

Assembled == pc = "crop" /\ stages = <<"assemble">>

\* C3: the assembled line is as high as the tallest glyph, and every glyph
\* is centred in it: padTop = (maxHeight - h) // 2 white rows above it,
\* padBottom = maxHeight - h - padTop white rows below it, padBottom - padTop
\* is 0 or 1, and the glyph's own rows lie unchanged in between.
C3_HeightIsMaxAndGlyphsCentred ==
    Assembled =>
        LET imgs == char_image_list
            H == TallestOf(imgs)
        IN  /\ Len(line_image) = H
            /\ \A k \in 1..Len(imgs) :
                LET h == Len(imgs[k])
                    padTop == (H - h) \div 2
                    padBottom == H - h - padTop
                    x == WidthsBefore(imgs, k)
                IN  /\ padBottom - padTop \in {0, 1}
                    /\ \A c \in 1..Len(imgs[k][1]) :
                        /\ \A r \in 1..padTop : line_image[r][x + c] = 255
                        /\ \A r \in 1..h : line_image[padTop + r][x + c] = imgs[k][r][c]
                        /\ \A r \in 1..padBottom :
                                line_image[padTop + h + r][x + c] = 255

\* C3 witness: a line of three glyphs of three different heights, one of
\* them padded by an odd number of rows
C3_Witness ==
    /\ Assembled
    /\ Len(char_image_list) = 3
    /\ Len(char_image_list[1]) = 2
    /\ Len(char_image_list[2]) = 3
    /\ Len(char_image_list[3]) = 1
    /\ Len(line_image) = 3

\* C4: the assembled line is as wide as the glyphs' widths sum up to, and
\* the k-th glyph fills exactly the columns that follow those of the glyphs
\* before it: every column of the line belongs to exactly one glyph, in
\* sequence order.
C4_WidthIsSumAndGlyphsAbut ==
    Assembled =>
        LET imgs == char_image_list
            n == Len(imgs)
            W == WidthsBefore(imgs, n + 1)
            Owner(col) == CHOOSE k \in 1..n :
                            /\ WidthsBefore(imgs, k) < col
                            /\ col <= WidthsBefore(imgs, k + 1)
        IN  /\ \A r \in 1..Len(line_image) : Len(line_image[r]) = W
            /\ \A col \in 1..W :
                LET k == Owner(col)
                    g == imgs[k]
                IN  \E top \in 0..(Len(line_image) - Len(g)) :
                        \A r \in 1..Len(g) :
                            line_image[top + r][col] = g[r][col - WidthsBefore(imgs, k)]

\* C4 witness: three glyphs of widths 1, 2 and 2 make a line of width 5
C4_Witness ==
    /\ Assembled
    /\ Len(char_image_list) = 3
    /\ Len(char_image_list[1][1]) = 1
    /\ Len(char_image_list[2][1]) = 2
    /\ Len(char_image_list[3][1]) = 2
    /\ Len(line_image[1]) = 5


PlainReturn == ReturnedImage /\ ~add_background /\ ~apply_augmentation

TextAABC == <<"A", "A", "B", "C">>
TextASpaceB == <<"A", " ", "B">>

\* every loaded glyph of ch is w wide and h high
GlyphsAre(ch, w, h) ==
    /\ HasGlyph(ch)
    /\ \A f \in DOMAIN char_images[ch] :
        Len(char_images[ch][f]) = h /\ Len(char_images[ch][f][1]) = w

\* every loaded glyph of ch is w wide
GlyphsAreWide(ch, w) ==
    /\ HasGlyph(ch)
    /\ \A f \in DOMAIN char_images[ch] : Len(char_images[ch][f][1]) = w

InkAt(img, r, c) == img[r][c] < 230
InkOnEveryEdge(img) ==
    /\ \E c \in 1..Len(img[1]) : InkAt(img, 1, c)
    /\ \E c \in 1..Len(img[1]) : InkAt(img, Len(img), c)
    /\ \E r \in 1..Len(img) : InkAt(img, r, 1)
    /\ \E r \in 1..Len(img) : InkAt(img, r, Len(img[1]))

\* C5 as stated: with background and augmentation off the returned image is
\* as wide as the rendered glyphs together and as high as the tallest of
\* them; "AABC" over 20x30 glyphs returns an 80x30 image and Label "AABC".
C5_Original ==
    PlainReturn =>
        /\ Len(ret.image[1]) = WidthsBefore(char_image_list, Len(char_image_list) + 1)
        /\ Len(ret.image) = TallestOf(char_image_list)
        /\ (text = TextAABC /\ GlyphsAre("A", 20, 30) /\ GlyphsAre("B", 20, 30)
                /\ GlyphsAre("C", 20, 30)) =>
                /\ Len(ret.image) = 30
                /\ Len(ret.image[1]) = 80
                /\ ret.text = TextAABC

\* C5 amended: with background and augmentation off the returned image is
\* the whitespace crop of the assembled line.  The assembled line is as wide
\* as the rendered glyphs together and as high as the tallest of them (80x30
\* for "AABC" over 20x30 glyphs, Label "AABC"); the returned image is at most
\* that wide and that high, and exactly so when ink reaches all four edges
\* of the assembled line.
C5_ReturnedIsCropOfAssembled ==
    PlainReturn =>
        LET W == WidthsBefore(char_image_list, Len(char_image_list) + 1)
            H == TallestOf(char_image_list)
        IN  /\ Len(prev_image) = H /\ Len(prev_image[1]) = W
            /\ Len(ret.image) <= H /\ Len(ret.image[1]) <= W
            /\ Len(ret.image) >= 1 /\ Len(ret.image[1]) >= 1
            /\ InkOnEveryEdge(prev_image) =>
                    Len(ret.image) = H /\ Len(ret.image[1]) = W
            /\ (text = TextAABC /\ GlyphsAre("A", 20, 30) /\ GlyphsAre("B", 20, 30)
                    /\ GlyphsAre("C", 20, 30)) =>
                    /\ W = 80 /\ H = 30
                    /\ ret.text = TextAABC

\* C5 witness: "AABC" over the 20x30 glyphs, flags off, returned narrower
\* than 80 and lower than 30 because the glyph of C has a white border
C5_Witness ==
    /\ PlainReturn
    /\ text = TextAABC
    /\ GlyphsAre("A", 20, 30) /\ GlyphsAre("B", 20, 30) /\ GlyphsAre("C", 20, 30)
    /\ ret.text = TextAABC
    /\ Len(prev_image[1]) = 80
    /\ Len(ret.image[1]) = 78

WhitespaceCount(t) == Cardinality({k \in 1..Len(t) : IsBlank(t[k])})

\* the part of C6 that is about the glyph sequence and the Label
BlankBuffers ==
    pc \in {"loop", "concat", "crop", "background", "augment"} \/ ReturnedImage =>
        /\ WhitespaceCount(filtered_text) = WhitespaceCount(SubSeq(text, 1, pos))
        /\ Len(char_image_list) = Len(filtered_text)
        /\ \A k \in 1..Len(filtered_text) :
            IsBlank(filtered_text[k]) =>
                /\ Len(char_image_list[k]) = 32
                /\ \A r \in 1..32 :
                    /\ Len(char_image_list[k][r]) = 20
                    /\ \A c \in 1..20 : char_image_list[k][r][c] = 255

\* C6 as stated: every whitespace character adds a blank 20x32 buffer of 255
\* and itself to the Label, so "A B" over 20-wide glyphs returns an image of
\* width 60 and Label "A B".
C6_Original ==
    /\ BlankBuffers
    /\ (ReturnedImage /\ text = TextASpaceB /\ GlyphsAreWide("A", 20)
            /\ GlyphsAreWide("B", 20)) =>
            /\ Len(ret.image[1]) = 60
            /\ ret.text = TextASpaceB

\* C6 amended: every whitespace character adds a blank 20x32 buffer of 255
\* to the glyph sequence and itself to the Label, so "A B" over 20-wide
\* glyphs gives three buffers of total width 60 and Label "A B"; the
\* returned image is at most 60 wide, and at least as wide as the blank and
\* the ink on both sides of it.
C6_BlankBufferPerWhitespace ==
    /\ BlankBuffers
    /\ (ReturnedImage /\ text = TextASpaceB /\ GlyphsAreWide("A", 20)
            /\ GlyphsAreWide("B", 20)) =>
            /\ Len(char_image_list) = 3
            /\ WidthsBefore(char_image_list, 4) = 60
            /\ ret.text = TextASpaceB
            /\ Len(ret.image[1]) <= 60
            /\ Len(ret.image[1]) > 20

\* C6 witness: "A B" over 20-wide glyphs returned with Label "A B" and an
\* image 59 wide: the white column left of the ink of A was cropped
C6_Witness ==
    /\ ReturnedImage
    /\ text = TextASpaceB
    /\ GlyphsAreWide("A", 20) /\ GlyphsAreWide("B", 20)
    /\ ret.text = TextASpaceB
    /\ Len(char_image_list) = 3
    /\ Len(ret.image[1]) = 59


Blended == pc = "augment" /\ stages = <<"blend">>

\* the background the blend was given, before any resize
GivenBackground == background_images[1]

\* C7: whatever the size of the background relative to the line image, the
\* blend returns an image with the width and the height of the line image.
C7_BlendKeepsLineSize ==
    Blended =>
        /\ Len(line_image) = Len(prev_image)
        /\ \A r \in 1..Len(line_image) : Len(line_image[r]) = Len(prev_image[r])

\* C7 witness: the blend ran with a background narrower and higher than
\* the line image
C7_Witness ==
    /\ Blended
    /\ Len(GivenBackground[1]) < Len(prev_image[1])
    /\ Len(GivenBackground) > Len(prev_image)
    /\ Len(line_image) = Len(prev_image)

\* C7 second witness state: a background that is larger both ways
C7_WitnessLarger ==
    /\ Blended
    /\ Len(GivenBackground[1]) > Len(prev_image[1])
    /\ Len(GivenBackground) > Len(prev_image)

\* C8: with a background at least as large as the line image both ways,
\* every pixel of the result is the line image's pixel where that is below
\* 180 and the background's pixel at the same place otherwise; 180 itself
\* is taken from the background.
C8_HardCutoffAt180 ==
    (Blended /\ Len(GivenBackground) >= Len(prev_image)
        /\ Len(GivenBackground[1]) >= Len(prev_image[1])) =>
        \A r \in 1..Len(prev_image) : \A c \in 1..Len(prev_image[1]) :
            line_image[r][c] =
                IF prev_image[r][c] <= 179 THEN prev_image[r][c]
                ELSE GivenBackground[r][c]

\* C8 witness: a line image with a pixel of 179 and a pixel of 180 was
\* blended with a larger patterned background
C8_Witness ==
    /\ Blended
    /\ Len(GivenBackground) > Len(prev_image)
    /\ Len(GivenBackground[1]) > Len(prev_image[1])
    /\ GivenBackground[1][1] # GivenBackground[2][2]
    /\ \E r \in 1..Len(prev_image) : \E c \in 1..Len(prev_image[1]) :
        prev_image[r][c] = 180 /\ line_image[r][c] = GivenBackground[r][c]
    /\ \E r \in 1..Len(prev_image) : \E c \in 1..Len(prev_image[1]) :
        prev_image[r][c] = 179 /\ line_image[r][c] = 179

Cropped == pc = "background" /\ stages = <<"crop">>
IPCropped == pc = "ip_done"

HasInk(img, t) == \E r \in 1..Len(img) : \E c \in 1..Len(img[1]) : img[r][c] < t
InkRows(img, t) == {r \in 1..Len(img) : \E c \in 1..Len(img[1]) : img[r][c] < t}
InkCols(img, t) == {c \in 1..Len(img[1]) : \E r \in 1..Len(img) : img[r][c] < t}
Least(S) == CHOOSE x \in S : \A y \in S : x <= y
Greatest(S) == CHOOSE x \in S : \A y \in S : y <= x

\* rows top+1..bottom and columns left+1..right of img
SubRectangle(img, top, bottom, left, right) ==
    [r \in 1..(bottom - top) |-> [c \in 1..(right - left) |-> img[top + r][left + c]]]

\* out is a sub-rectangle of img that reaches past the tight box of the
\* pixels below t by 0..3 pixels on every side, or up to the edge of img
CropOfWithin3(out, img, t) ==
    LET top0 == Least(InkRows(img, t)) - 1
        bottom0 == Greatest(InkRows(img, t))
        left0 == Least(InkCols(img, t)) - 1
        right0 == Greatest(InkCols(img, t))
        H == Len(img)
        W == Len(img[1])
    IN  \E top \in (IF top0 >= 3 THEN top0 - 3 ELSE 0)..top0,
           bottom \in bottom0..(IF bottom0 + 3 <= H THEN bottom0 + 3 ELSE H),
           left \in (IF left0 >= 3 THEN left0 - 3 ELSE 0)..left0,
           right \in right0..(IF right0 + 3 <= W THEN right0 + 3 ELSE W) :
            out = SubRectangle(img, top, bottom, left, right)

\* C9: for an image with a pixel below 230, the whitespace crop returns a
\* sub-rectangle of it that holds every pixel below 230, is no larger than
\* the image, and reaches past the tight ink box by 0 to 3 pixels on each
\* side, clamped to the image.
C9_CropKeepsInkWithinMargin ==
    /\ (Cropped /\ HasInk(prev_image, 230)) =>
            CropOfWithin3(line_image, prev_image, 230)
    /\ (IPCropped /\ ip_args.threshold = 230 /\ HasInk(prev_image, 230)) =>
            CropOfWithin3(line_image, prev_image, 230)

\* C9 witness: a crop that cut away rows and columns and kept a margin of
\* three columns on the left of the ink and none on its right
C9_Witness ==
    /\ Cropped
    /\ HasInk(prev_image, 230)
    /\ Len(prev_image[1]) = 7
    /\ InkCols(prev_image, 230) = {5}
    /\ Len(line_image[1]) = 4
    /\ Len(line_image) < Len(prev_image)
    /\ InkCols(line_image, 230) = {4}

\* C10: an image with no pixel below the ink threshold comes back from the
\* crop unchanged, whatever the margins drawn.
C10_NoInkUnchanged ==
    /\ (Cropped /\ ~HasInk(prev_image, 230)) => line_image = prev_image
    /\ (IPCropped /\ ~HasInk(prev_image, ip_args.threshold)) => line_image = prev_image

\* C10 witness: a 3x7 image without ink went through _crop_whitespace
C10_Witness ==
    /\ Cropped
    /\ ~HasInk(prev_image, 230)
    /\ Len(prev_image) = 3 /\ Len(prev_image[1]) = 7
    /\ line_image = prev_image

\* C10 second witness state: ImageProcessor.crop_whitespace with threshold
\* 200 on an image whose darkest pixel is 229
C10_WitnessImageProcessor ==
    /\ IPCropped
    /\ ip_args.threshold = 200
    /\ HasInk(prev_image, 230) /\ ~HasInk(prev_image, 200)
    /\ line_image = prev_image

----------------------------------------------------------------------------
(* C11: idempotence of the whitespace crop *)

\* _crop_whitespace with the four margin draws equal to 0
crop_zero_margin(img) ==
    image_crop(img, with_margins(ink_bounds(img), Height(img), Width(img), 0, 0, 0, 0))

\* C11: an image that came out of a crop with zero margin is returned
\* unchanged by a second crop with the same threshold and zero margin, for
\* ImageProcessor.crop_whitespace and for _crop_whitespace when its four
\* margin draws are 0.
C11_CropIsIdempotent ==
    /\ (IPCropped /\ ip_args.margin = 0) =>
            crop_whitespace(line_image, ip_args.threshold, 0) = line_image
    /\ (Cropped /\ line_image = crop_zero_margin(prev_image)) =>
            crop_zero_margin(line_image) = line_image

\* C11 witness: a zero-margin crop with threshold 230 that cut rows and
\* columns away and left more than one pixel, one of them not ink
C11_Witness ==
    /\ IPCropped
    /\ ip_args = [threshold |-> 230, margin |-> 0]
    /\ Len(line_image) < Len(prev_image)
    /\ Len(line_image[1]) < Len(prev_image[1])
    /\ Len(line_image) > 1 /\ Len(line_image[1]) > 1
    /\ \E r \in 1..Len(line_image) : \E c \in 1..Len(line_image[1]) :
            line_image[r][c] >= 230

\* C11 second witness state: the same for _crop_whitespace
C11_WitnessComposer ==
    /\ Cropped
    /\ line_image = crop_zero_margin(prev_image)
    /\ Len(line_image) < Len(prev_image)
    /\ Len(line_image[1]) < Len(prev_image[1])
    /\ Len(line_image) > 1 /\ Len(line_image[1]) > 1

----------------------------------------------------------------------------
(* C12: the brightness, brightness/contrast and noise transforms *)

Augmented == pc = "done" /\ stages # <<>> /\ stages[1] = "augment"
BCAdjusted == pc = "bc_done"

SameSize(a, b) == Len(a) = Len(b) /\ \A r \in 1..Len(a) : Len(a[r]) = Len(b[r])
In8Bit(img) == \A r \in 1..Len(img) : \A c \in 1..Len(img[r]) : img[r][c] \in 0..255

\* a brighter pixel of a never becomes the darker one of the two in b
KeepsOrder(a, b) ==
    \A r1 \in 1..Len(a), r2 \in 1..Len(a) : \A c1 \in 1..Len(a[1]), c2 \in 1..Len(a[1]) :
        a[r1][c1] <= a[r2][c2] => b[r1][c1] <= b[r2][c2]

\* no pixel of b is further than d from the same pixel of a
Within(a, b, d) ==
    \A r \in 1..Len(a) : \A c \in 1..Len(a[1]) :
        a[r][c] - b[r][c] <= d /\ b[r][c] - a[r][c] <= d

\* C12: brightness scaling, brightness/contrast and additive noise return an
\* image of the input's size whose pixels are all in 0..255, and the values
\* saturate instead of wrapping: scaling keeps the order of the pixels and
\* noise moves no pixel by more than its amplitude.
C12_TransformsStayIn8Bit ==
    /\ (Augmented \/ BCAdjusted) => SameSize(prev_image, line_image) /\ In8Bit(line_image)
    /\ BCAdjusted => KeepsOrder(prev_image, line_image)
    /\ (Augmented /\ stages = <<"augment", "brightness">>) =>
            KeepsOrder(prev_image, line_image)
    /\ (Augmented /\ stages = <<"augment", "noise">>) =>
            \E amp \in NoiseAmplitudes : Within(prev_image, line_image, amp)

\* C12 witness: brightness 1.2 and contrast 1.2 on an image with a white, a
\* grey and a black pixel; white and black are both clipped
C12_Witness ==
    /\ BCAdjusted
    /\ bc_args = [brightness |-> 120, contrast |-> 120]
    /\ \E r \in 1..Len(prev_image) : \E c \in 1..Len(prev_image[1]) :
            prev_image[r][c] = 255 /\ line_image[r][c] = 255
    /\ \E r \in 1..Len(prev_image) : \E c \in 1..Len(prev_image[1]) :
            prev_image[r][c] = 0 /\ line_image[r][c] = 0
    /\ \E r \in 1..Len(prev_image) : \E c \in 1..Len(prev_image[1]) :
            prev_image[r][c] = 128 /\ line_image[r][c] = 158

\* C12 second witness state: brightness scaling and noise of
\* _apply_augmentation, both clipping a white pixel
C12_WitnessAugmentation ==
    /\ Augmented
    /\ stages = <<"augment", "brightness", "noise">>
    /\ prev_image = <<<<255, 0>>, <<128, 255>>>>
    /\ line_image[1][1] = 255 /\ line_image[1][2] = 0

----------------------------------------------------------------------------
(* C13, C14: the dictionary file *)

\* _load_char_dict has read the whole file
DictLoaded == lpc = "dict" /\ line_no = Len(dict_file.lines)

AllWellFormed(file) == \A k \in 1..Len(file) : file[k] \in WellFormedLines

\* the last well-formed line of the file that names the character ch
LastLineOf(file, ch) ==
    CHOOSE k \in 1..Len(file) :
        /\ file[k] \in WellFormedLines /\ file[k][1] = ch
        /\ \A j \in (k + 1)..Len(file) : ~(file[j] \in WellFormedLines /\ file[j][1] = ch)

\* the code a well-formed line of DictLines carries
CodeOfLine(line) == IF line \in {Line_a_1, Line_b_1} THEN 1 ELSE 12

\* C13: after loading a file of valid lines (duplicates included) every
\* loaded code maps to a character that maps back to that code, distinct
\* characters have distinct codes, and a repeated character keeps the code
\* of its last line.
C13_MappingRoundTrips ==
    (DictLoaded /\ AllWellFormed(dict_file.lines)) =>
        /\ \A code \in DOMAIN char_dict_reverse :
                /\ char_dict_reverse[code] \in DOMAIN char_dict
                /\ char_dict[char_dict_reverse[code]] = code
        /\ \A c1 \in DOMAIN char_dict, c2 \in DOMAIN char_dict :
                char_dict[c1] = char_dict[c2] => c1 = c2
        /\ \A ch \in DOMAIN char_dict :
                char_dict[ch] = CodeOfLine(dict_file.lines[LastLineOf(dict_file.lines, ch)])

\* C14: no line makes the loading fail, and once the file is read the
\* dictionary holds exactly the well-formed lines, those before and after a
\* malformed line included.
C14_MalformedLinesAreSkipped ==
    /\ error # "ValueError"
    /\ DictLoaded =>
        /\ DOMAIN char_dict =
                {dict_file.lines[k][1] : k \in {j \in 1..Len(dict_file.lines) :
                                            dict_file.lines[j] \in WellFormedLines}}
        /\ \A ch \in DOMAIN char_dict :
                char_dict[ch] = CodeOfLine(dict_file.lines[LastLineOf(dict_file.lines, ch)])

----------------------------------------------------------------------------
(* C15: get_character_image *)

LoaderDone == lpc = "ready"
Looked == lpc = "ready" /\ lookup.char # ""

\* C15: a lookup returns no buffer exactly when the character has no loaded
\* glyph; a requested style that is loaded for the character gives that
\* style's glyph; otherwise the result is a glyph loaded for the same
\* character.
C15_LookupReturnsGlyphOfCharacter ==
    Looked =>
        LET ch == lookup.char
            style == lookup.font_style
            image == lookup.image
        IN  /\ (image = NoImage) <=> ~HasGlyph(ch)
            /\ (HasGlyph(ch) /\ style \in DOMAIN char_images[ch]) =>
                    image = char_images[ch][style]
            /\ HasGlyph(ch) =>
                    \E f \in DOMAIN char_images[ch] : image = char_images[ch][f]

\* "b" has the styles f and g, and "a" has a glyph of its own
TwoStylesLoaded ==
    /\ HasGlyph("b")
    /\ DOMAIN char_images["b"] = {"f", "g"}
    /\ char_images["b"]["f"] # char_images["b"]["g"]

\* C15 witness: the requested style g is loaded next to f and is returned
C15_Witness ==
    /\ Looked /\ TwoStylesLoaded
    /\ lookup.char = "b" /\ lookup.font_style = "g"
    /\ lookup.image = char_images["b"]["g"]

\* C15 further witness states: without a style either glyph can come back,
\* a style that is not loaded falls back to a loaded one, and a character
\* without a glyph gives None while another character has one
C15_WitnessNoStyleFirst ==
    /\ Looked /\ TwoStylesLoaded
    /\ lookup.char = "b" /\ lookup.font_style = None
    /\ lookup.image = char_images["b"]["f"]

C15_WitnessNoStyleSecond ==
    /\ Looked /\ TwoStylesLoaded
    /\ lookup.char = "b" /\ lookup.font_style = None
    /\ lookup.image = char_images["b"]["g"]

C15_WitnessFallback ==
    /\ Looked
    /\ HasGlyph("b") /\ DOMAIN char_images["b"] = {"f"}
    /\ lookup.char = "b" /\ lookup.font_style = "g"
    /\ lookup.image = char_images["b"]["f"]

C15_WitnessNotFound ==
    /\ Looked
    /\ HasGlyph("b") /\ ~HasGlyph("a")
    /\ lookup.char = "a" /\ lookup.image = NoImage

----------------------------------------------------------------------------
(* C16: the file names that are stored *)

\* 1-based index of the first character of s that is in stops, Len(s) + 1
\* when there is none
FirstOf(s, stops) ==
    IF \E i \in 1..Len(s) : s[i] \in stops
    THEN CHOOSE i \in 1..Len(s) : s[i] \in stops /\ \A j \in 1..(i - 1) : s[j] \notin stops
    ELSE Len(s) + 1

HasUnderscore(name) == \E i \in 1..Len(name) : name[i] = "_"
StyleText(name) == SubSeq(name, 1, FirstOf(name, {"_"}) - 1)
AfterUnderscore(name) == SubSeq(name, FirstOf(name, {"_"}) + 1, Len(name))

\* the text between the first underscore and the extension
WholeCode(name) == SubSeq(AfterUnderscore(name), 1, Len(AfterUnderscore(name)) - 4)

\* the text between the first underscore and the next underscore or dot
LeadingCode(name) ==
    SubSeq(AfterUnderscore(name), 1, FirstOf(AfterUnderscore(name), {"_", "."}) - 1)

Numeric(s) == s # <<>> /\ \A i \in 1..Len(s) : s[i] \in Digits

\* the file f, read with the code text code, is a glyph of ch in style st
IsGlyphFile(f, code, ch, st) ==
    /\ f.dir = <<>>
    /\ f.image # NoImage
    /\ is_image_name(f.name)
    /\ HasUnderscore(f.name)
    /\ join(StyleText(f.name)) = st
    /\ Numeric(code)
    /\ decimal(code) \in DOMAIN char_dict_reverse
    /\ char_dict_reverse[decimal(code)] = ch

\* C16 as stated: every stored glyph is the image of a file whose whole
\* text between the first underscore and the extension is a numeric code of
\* its character, and whose text before the first underscore is its style.
C16_Original ==
    LoaderDone =>
        \A ch \in DOMAIN char_images : \A st \in DOMAIN char_images[ch] :
            \E k \in 1..Len(image_dir.files) :
                /\ IsGlyphFile(image_dir.files[k], WholeCode(image_dir.files[k].name), ch, st)
                /\ char_images[ch][st] = image_dir.files[k].image

\* the files of the directory that are glyphs of ch in style st when the
\* code is the text up to the next underscore or dot
GlyphFilesOf(ch, st) ==
    {k \in 1..Len(image_dir.files) :
        IsGlyphFile(image_dir.files[k], LeadingCode(image_dir.files[k].name), ch, st)}

\* C16 amended: a glyph is stored under (character, style) exactly when a
\* decodable .jpg or .png file of the directory has the style before its
\* first underscore and, between that underscore and the next underscore or
\* dot, a numeric code of the character; the stored image is that of the
\* last such file listed.
C16_StoredUnderLeadingCode ==
    LoaderDone =>
        /\ \A ch \in DOMAIN char_images : \A st \in DOMAIN char_images[ch] :
                /\ GlyphFilesOf(ch, st) # {}
                /\ char_images[ch][st] =
                        image_dir.files[Greatest(GlyphFilesOf(ch, st))].image
        /\ \A ch \in {"a", "b"}, st \in {"f", "g"} :
                GlyphFilesOf(ch, st) # {} =>
                    ch \in DOMAIN char_images /\ st \in DOMAIN char_images[ch]

\* C16 witness: f_12_3.jpg and f_12.5.png are the files of the directory
\* and the glyph of code 12 in style f is the image of the second
C16_Witness ==
    /\ LoaderDone
    /\ image_dir = Directory(<<Entry(<<>>, Name_f_12_3, PixelOf(4)),
                               Entry(<<>>, Name_f_12_5, PixelOf(5))>>)
    /\ dict_file = File(<<Line_b_12>>)
    /\ char_images = [b |-> [f |-> PixelOf(5)]]

----------------------------------------------------------------------------
(* C17: files of subdirectories *)

\* the files that would be glyphs of ch in style st wherever they lie
GlyphFilesAnywhere(ch, st) ==
    {k \in 1..Len(image_dir.files) :
        IsGlyphFile([image_dir.files[k] EXCEPT !.dir = <<>>],
                    LeadingCode(image_dir.files[k].name), ch, st)}

Nested(k) == image_dir.files[k].dir # <<>>

\* C17 as stated: a well-named, decodable file of a subdirectory is loaded
\* like a file of the directory itself.
C17_Original ==
    LoaderDone =>
        \A ch \in {"a", "b"}, st \in {"f", "g"} :
            (\E k \in GlyphFilesAnywhere(ch, st) : Nested(k)) =>
                ch \in DOMAIN char_images /\ st \in DOMAIN char_images[ch]

\* C17 amended: only the files directly in the image directory are loaded;
\* a file of a subdirectory never reaches the store, so a (character, style)
\* whose only files are nested has no glyph and every stored glyph is the
\* image of a file of the directory itself.
C17_OnlyDirectFilesLoaded ==
    LoaderDone =>
        /\ \A ch \in {"a", "b"}, st \in {"f", "g"} :
                (\A k \in GlyphFilesAnywhere(ch, st) : Nested(k)) =>
                    ~(ch \in DOMAIN char_images /\ st \in DOMAIN char_images[ch])
        /\ \A ch \in DOMAIN char_images : \A st \in DOMAIN char_images[ch] :
                \E k \in GlyphFilesAnywhere(ch, st) : ~Nested(k)

\* C17 witness: g_12.png lies in the directory and f_12.jpg in its
\* subdirectory; only style g is loaded for the character of code 12
C17_Witness ==
    /\ LoaderDone
    /\ image_dir = Directory(<<Entry(SubDirectory, Name_f_12, PixelOf(1)),
                               Entry(<<>>, Name_g_12, PixelOf(2))>>)
    /\ dict_file = File(<<Line_a_1, Line_b_12>>)
    /\ char_images = [b |-> [g |-> PixelOf(2)]]

----------------------------------------------------------------------------
(* C18: missing dictionary file, missing image directory, bad glyph files *)

\* the directory holds a file that does not decode or whose name does not
\* parse
HasBadFile ==
    \E k \in 1..Len(image_dir.files) :
        \/ image_dir.files[k].image = NoImage
        \/ image_dir.files[k].name \in {Name_f_x, Name_f12, Name_f_7}

\* C18: the constructor fails with FileNotFoundError exactly when the
\* dictionary file is missing, and any other failure is the ValueError of a
\* dictionary line, raised before the image directory is looked at; a
\* missing image directory is no failure: once the dictionary is read the
\* constructor returns with the dictionary loaded and an empty glyph set,
\* and every lookup finds nothing; a file that does not parse or decode is
\* skipped and the glyph files next to it are loaded.
C18_OnlyMissingDictionaryFails ==
    /\ ~dict_file.exists => lpc \in {"start", "failed"}
    /\ (error = "FileNotFoundError") <=> (lpc = "failed" /\ ~dict_file.exists)
    /\ lpc = "failed" => (file_no = 0 /\ char_images = EmptyStore)
    /\ (lpc = "failed" /\ dict_file.exists) =>
            /\ error = "ValueError"
            /\ line_no >= 1
            /\ dict_file.lines[line_no] \in
                    {Line_TwoSeparators, Line_NotInteger, Line_BlankChar}
    /\ (~image_dir.exists /\ lpc \notin {"start", "dict", "failed"}) =>
            /\ lpc = "ready"
            /\ char_images = EmptyStore
            /\ DOMAIN char_dict =
                    {dict_file.lines[k][1] : k \in {j \in 1..Len(dict_file.lines) :
                                                dict_file.lines[j] \in WellFormedLines}}
            /\ Looked => lookup.image = NoImage
    /\ (LoaderDone /\ HasBadFile) =>
            \A ch \in {"a", "b"}, st \in {"f", "g"} :
                GlyphFilesOf(ch, st) # {} =>
                    /\ ch \in DOMAIN char_images /\ st \in DOMAIN char_images[ch]
                    /\ \E k \in GlyphFilesOf(ch, st) :
                            char_images[ch][st] = image_dir.files[k].image

\* C18 witness: the image directory is missing, the dictionary of two
\* lines is loaded, and a lookup of a character of the dictionary found
\* nothing
C18_Witness ==
    /\ ~image_dir.exists
    /\ LoaderDone
    /\ char_dict = [a |-> 1, b |-> 12]
    /\ char_images = EmptyStore
    /\ Looked /\ lookup.char = "b" /\ lookup.image = NoImage

\* C18 further witness states: the dictionary file is missing; a file that
\* does not decode is followed by one that is loaded
C18_WitnessMissingDictionary ==
    /\ ~dict_file.exists
    /\ lpc = "failed" /\ error = "FileNotFoundError"

C18_WitnessUndecodable ==
    /\ LoaderDone
    /\ image_dir = Directory(<<Entry(<<>>, Name_f_12, NoImage),
                               Entry(<<>>, Name_g_12, PixelOf(2))>>)
    /\ char_images = [b |-> [g |-> PixelOf(2)]]

----------------------------------------------------------------------------
(* C20: filter_available_text *)

Filtered == pc = "filtered"

Kept(ch) == in_list(ch, available_chars) \/ IsBlank(ch)

\* the positions of t whose character is kept, in order, are the text out
IsKeptSubsequence(out, t) ==
    LET kept == {k \in 1..Len(t) : Kept(t[k])}
        before(k) == Cardinality({j \in kept : j <= k})
    IN  /\ Len(out) = Cardinality(kept)
        /\ \A k \in kept : out[before(k)] = t[k]

\* C20: the result is the text without the characters that are neither in
\* the list nor whitespace, in the original order and with multiplicities;
\* it is no longer than the text, and filtering it again gives it back.
C20_FilterKeepsAvailableAndWhitespace ==
    Filtered =>
        /\ IsKeptSubsequence(filtered_chars, text)
        /\ Len(filtered_chars) <= Len(text)
        /\ filter_available_text(filtered_chars, available_chars) = filtered_chars

\* C20 witness: "A", a blank and a repeated "A" are kept, "X" is dropped
C20_Witness ==
    /\ Filtered
    /\ text = <<"A", "X", " ">>
    /\ available_chars = <<"A", "A">>
    /\ filtered_chars = <<"A", " ">>

----------------------------------------------------------------------------
(* C19: a run without glyphs *)

RunFinished == gpc = "finished"
NoGlyphs == get_available_characters(char_images) = {}

\* C19 as stated: a run whose glyph set is empty does not complete
\* normally.
C19_Original == NoGlyphs => ~RunFinished

\* the texts the run can draw hold no whitespace
NoWhitespaceDrawn ==
    \/ ~use_corpus
    \/ \A k \in 1..Len(corpus_lines) : \A n \in 1..Len(corpus_lines[k]) :
            ~IsBlank(corpus_lines[k][n])

\* C19 amended: a run whose glyph set is empty is not aborted: until it
\* returns it is at the head of an iteration or inside compose_line_image,
\* it returns after num_samples iterations and writes the list of its
\* samples to labels.json; the label of every sample it persists is made of
\* whitespace only, and it persists none when it draws random text or when
\* no corpus line holds whitespace.
C19_EmptyGlyphSetCompletes ==
    NoGlyphs =>
        /\ \A k \in 1..Len(samples_metadata) :
                /\ samples_metadata[k].text # <<>>
                /\ \A n \in 1..Len(samples_metadata[k].text) :
                        IsBlank(samples_metadata[k].text[n])
        /\ NoWhitespaceDrawn => samples_metadata = <<>>
        /\ sample_index <= num_samples
        /\ ~RunFinished =>
                \/ gpc = "iterate" /\ pc = "idle"
                \/ gpc = "compose" /\ pc = "loop" /\ pos <= Len(text)
                \/ gpc = "compose" /\ pc = "concat" /\ char_image_list # <<>>
                \/ gpc = "compose" /\ pc \in {"crop", "background", "augment"}
                        /\ line_image # NoImage
                \/ gpc = "compose" /\ pc = "done"
        /\ RunFinished =>
                (sample_index = num_samples /\ labels_file = File(samples_metadata))

\* C19 witness: two samples were asked from the corpus, the glyph set is
\* empty, and the run has returned
C19_Witness ==
    /\ NoGlyphs
    /\ RunFinished
    /\ num_samples = 2
    /\ use_corpus /\ corpus_lines # <<>>
    /\ labels_file = File(<<>>)

\* C19 further witness states: the same with random text, where every
\* iteration ends at the continue; and a run on the corpus line "X X" that
\* persisted a blank image under the label " "
C19_WitnessRandomText ==
    /\ NoGlyphs
    /\ RunFinished
    /\ num_samples = 2
    /\ ~use_corpus
    /\ labels_file = File(<<>>)

C19_WitnessBlankSample ==
    /\ NoGlyphs
    /\ RunFinished
    /\ Len(samples_metadata) = 1
    /\ samples_metadata[1].text = <<" ">>
    /\ samples_metadata[1].original_text = <<"X", " ", "X">>

----------------------------------------------------------------------------
(* C21: the corpus lines and the two line getters *)

CorpusLoaded == cpc = "loaded"

\* the trimmed lines of a file, the empty ones left out
TrimmedLine(file, k) == strip(file[k])
RECURSIVE NonEmptyOnly(_)
NonEmptyOnly(ls) ==
    IF ls = <<>> THEN <<>>
    ELSE IF Head(ls) = <<>> THEN NonEmptyOnly(Tail(ls))
    ELSE <<Head(ls)>> \o NonEmptyOnly(Tail(ls))
LinesOfFile(name) ==
    NonEmptyOnly([k \in 1..Len(corpus_directory[name]) |->
                    TrimmedLine(corpus_directory[name], k)])

\* the lines of the files of a list, the files in list order
RECURSIVE LinesOfFiles(_)
LinesOfFiles(list) ==
    IF list = <<>> THEN <<>>
    ELSE LinesOfFile(Head(list)) \o LinesOfFiles(Tail(list))

\* a file list without the names of files that do not exist
RECURSIVE ExistingOnly(_)
ExistingOnly(list) ==
    IF list = <<>> THEN <<>>
    ELSE (IF Head(list) \in DOMAIN corpus_directory THEN <<Head(list)>> ELSE <<>>)
            \o ExistingOnly(Tail(list))

\* C21: every stored corpus line is non-empty and has no whitespace at
\* either end; after load_corpus_files the stored lines are the trimmed
\* non-empty lines of the files of the list that exist, in list order and,
\* within a file, in file order, files that do not exist counting for
\* nothing; get_line_by_index returns the stored line for 0 <= index < count
\* and "" for every other index; get_random_line returns "" when no line is
\* loaded, and a stored line otherwise.
C21_CorpusLinesAreTrimmedAndOrdered ==
    /\ \A k \in 1..Len(corpus_lines) :
            /\ corpus_lines[k] # <<>>
            /\ ~isspace(corpus_lines[k][1])
            /\ ~isspace(corpus_lines[k][Len(corpus_lines[k])])
    /\ cpc = "constructed" => corpus_lines = <<>>
    /\ cpc = "loading" =>
            corpus_lines = LinesOfFiles(ExistingOnly(SubSeq(file_list, 1, corpus_file_no)))
    /\ CorpusLoaded => corpus_lines = LinesOfFiles(ExistingOnly(file_list))
    /\ line_query.op = "get_line_by_index" =>
            IF line_query.index >= 0 /\ line_query.index < Len(corpus_lines)
            THEN line_query.result = corpus_lines[line_query.index + 1]
            ELSE line_query.result = <<>>
    /\ line_query.op = "get_random_line" =>
            IF corpus_lines = <<>>
            THEN line_query.result = <<>>
            ELSE \E k \in 1..Len(corpus_lines) : line_query.result = corpus_lines[k]

\* a list with a missing file between two files that exist has been loaded,
\* lines of both files are stored, and a line in range has been returned
C21_Witness ==
    /\ CorpusLoaded
    /\ Len(file_list) = 3
    /\ file_list[1] = "c1.txt" /\ file_list[2] = "missing.txt" /\ file_list[3] = "c2.txt"
    /\ corpus_directory["c1.txt"] = <<<<" ", "A", " ", "\n">>, <<" ", "\n">>>>
    /\ corpus_directory["c2.txt"] = <<<<"\t", "\n">>, <<"A", " ", "B", "\n">>>>
    /\ corpus_lines = <<<<"A">>, <<"A", " ", "B">>>>
    /\ line_query.op = "get_line_by_index"
    /\ line_query.index = 1
    /\ line_query.result = <<"A", " ", "B">>

\* a negative index is answered with "" although lines are loaded
C21_WitnessNegativeIndex ==
    /\ CorpusLoaded
    /\ Len(corpus_lines) >= 2
    /\ line_query.op = "get_line_by_index"
    /\ line_query.index = 0 - 1
    /\ line_query.result = <<>>

\* get_random_line on a processor whose files held no line
C21_WitnessNoLine ==
    /\ CorpusLoaded
    /\ file_list # <<>>
    /\ \E k \in 1..Len(file_list) : file_list[k] \in DOMAIN corpus_directory
    /\ corpus_lines = <<>>
    /\ line_query.op = "get_random_line"
    /\ line_query.result = <<>>

\* a second load_corpus_files starts from an empty list
C21_WitnessReload ==
    /\ cpc = "loading"
    /\ corpus_file_no = 1
    /\ Len(corpus_lines) = 1
    /\ line_query.op = "load_corpus_files"
    /\ Len(LinesOfFiles(ExistingOnly(file_list))) >= 2

----------------------------------------------------------------------------
(* C22: a run of N samples ends after N iterations *)

PersistedCount == Len(samples_metadata)
SkippedCount == Len(skipped_indices)

C22_CountsAddUp ==
    /\ gpc # "aborted"
    /\ gpc # "none" =>
        /\ sample_index <= num_samples
        /\ PersistedCount + SkippedCount = sample_index
        /\ RunFinished =>
            /\ sample_index = num_samples
            /\ PersistedCount + SkippedCount = num_samples
            /\ labels_file = File(samples_metadata)
        /\ ~RunFinished => labels_file = NoFile

\* an iteration that raised or persisted nothing is followed by the next index
C22_SkipGoesOn ==
    (SkippedCount' = SkippedCount + 1) =>
        /\ sample_index' = sample_index + 1
        /\ gpc' = "iterate"
        /\ samples_metadata' = samples_metadata

\* labels.json is written in one step, after the last iteration
C22_LabelsWrittenOnce ==
    (labels_file' # labels_file) =>
        /\ labels_file = NoFile
        /\ sample_index = num_samples
        /\ gpc' = "finished"
        /\ labels_file' = File(samples_metadata)

\* C22: generate_line_samples with N requested samples ends after exactly N
\* iterations: an iteration whose composition raises an exception or returns
\* no image is skipped and the later iterations still run, the persisted
\* samples and the skipped indices add up to N, and the labels file is
\* written once, after the last iteration.
C22_RunEndsAfterNIterations ==
    /\ []C22_CountsAddUp
    /\ [][C22_SkipGoesOn /\ C22_LabelsWrittenOnce]_vars
    /\ <>RunFinished

\* a run of two samples whose first composition raised and whose second was persisted
C22_Witness ==
    /\ RunFinished
    /\ num_samples = 2
    /\ SkippedCount = 1
    /\ skipped_indices[1] = Skipped(0, "ValueError")
    /\ PersistedCount = 1
    /\ samples_metadata[1].filename = filename_of(1)

\* a run whose first composition returned nothing and whose second was persisted
C22_WitnessNothingReturned ==
    /\ RunFinished
    /\ num_samples = 2
    /\ SkippedCount = 1
    /\ skipped_indices[1] = Skipped(0, "nothing returned")
    /\ PersistedCount = 1

\* a run whose save failed at index 0 and succeeded at index 1
C22_WitnessSaveFailed ==
    /\ RunFinished
    /\ num_samples = 2
    /\ SkippedCount = 1
    /\ skipped_indices[1] = Skipped(0, "OSError")
    /\ PersistedCount = 1

----------------------------------------------------------------------------
(* C23: the names of the persisted samples *)

\* the number a sequence of decimal digits writes
RECURSIVE NumberOf(_)
NumberOf(ds) ==
    IF ds = <<>> THEN 0 ELSE 10 * NumberOf(SubSeq(ds, 1, Len(ds) - 1)) + ds[Len(ds)]

\* the name is line_ followed by six digits that write index i
IsLineName(name, i) ==
    /\ name.prefix = "line_"
    /\ Len(name.number) = 6
    /\ \A d \in 1..6 : name.number[d] \in 0..9
    /\ NumberOf(name.number) = i

MetadataNames == {samples_metadata[k].filename : k \in 1..PersistedCount}
SkippedSet == {skipped_indices[k].index : k \in 1..SkippedCount}

\* C23: the sample persisted at iteration index i is named line_<i padded
\* with zeros to 6 digits>; the file names of the metadata are pairwise
\* distinct and strictly increasing, a skipped index has neither a file nor a
\* metadata entry, and the metadata list has exactly one entry per persisted
\* image.
C23_SequentialFilenames ==
    /\ \A k \in 1..PersistedCount :
            \E i \in 0..(sample_index - 1) :
                /\ IsLineName(samples_metadata[k].filename, i)
                /\ i \notin SkippedSet
    /\ \A j, k \in 1..PersistedCount :
            j < k => NumberOf(samples_metadata[j].filename.number)
                        < NumberOf(samples_metadata[k].filename.number)
    /\ \A i \in SkippedSet :
            \A name \in output_files \cup MetadataNames : ~IsLineName(name, i)
    /\ output_files = MetadataNames
    /\ Cardinality(output_files) = PersistedCount

\* both iterations of a run of two samples were persisted
C23_Witness ==
    /\ RunFinished
    /\ PersistedCount = 2
    /\ samples_metadata[1].filename.number = <<0, 0, 0, 0, 0, 0>>
    /\ samples_metadata[2].filename.number = <<0, 0, 0, 0, 0, 1>>
    /\ Cardinality(output_files) = 2

\* index 0 was skipped: the only file is the one of index 1
C23_WitnessGap ==
    /\ RunFinished
    /\ SkippedSet = {0}
    /\ PersistedCount = 1
    /\ output_files = {filename_of(1)}

----------------------------------------------------------------------------
(* C24: the order of the stages and of the augmentation transforms *)

StageRank(name) ==
    CASE name = "assemble" -> 1
      [] name = "crop" -> 2
      [] name = "blend" -> 3
      [] name = "augment" -> 4
      [] name = "brightness" -> 5
      [] name = "noise" -> 6
      [] name = "blur" -> 7
      [] OTHER -> 0

Ran(name) == \E k \in 1..Len(stages) : stages[k] = name
InOrder == \A j, k \in 1..Len(stages) : j < k => StageRank(stages[j]) < StageRank(stages[k])
ImageReturned == pc = "done" /\ ret.image # NoImage

\* the image the augmentation returned is the blur of the noise of the
\* brightness of the image it was given, each of the three where it ran
AugmentedInOrder ==
    \E factor \in BrightnessFactors, amp \in NoiseAmplitudes :
        LET bright == IF Ran("brightness") THEN adjust_brightness(prev_image, factor)
                      ELSE prev_image
            noisy == IF Ran("noise") THEN add_noise(bright, amp) ELSE bright
            blurred == IF Ran("blur") THEN gaussian_blur(noisy) ELSE noisy
        IN  ret.image = blurred

\* C24: the stages of compose_line_image run in the order assemble, crop,
\* background blend, augment, and the transforms of the augmentation are a
\* subsequence of (brightness, noise, blur) in that order, each applied to
\* the output of the one before; without apply_augmentation no transform
\* runs, without add_background or without a loaded background the blend is
\* left out, and with both off the result is the cropped assembly.
C24_StagesRunInOrder ==
    /\ InOrder
    /\ (Ran("brightness") \/ Ran("noise") \/ Ran("blur")) => Ran("augment")
    /\ ImageReturned =>
        /\ Ran("assemble") /\ Ran("crop")
        /\ Ran("blend") <=> (add_background /\ background_images # <<>>)
        /\ Ran("augment") <=> apply_augmentation
        /\ Ran("augment") => AugmentedInOrder
        /\ (~Ran("blend") /\ ~Ran("augment")) =>
                ret.image \in _crop_whitespace(_concatenate_character_images(char_image_list))

\* all four stages and all three transforms ran, and brightness and noise
\* both changed the image
C24_Witness ==
    /\ ImageReturned
    /\ stages = <<"assemble", "crop", "blend", "augment", "brightness", "noise", "blur">>
    /\ \A factor \in BrightnessFactors, amp \in NoiseAmplitudes :
            add_noise(adjust_brightness(prev_image, factor), amp)
                # adjust_brightness(add_noise(prev_image, amp), factor)

\* the other seven subsets of the transforms
C24_WitnessNone == ImageReturned /\ stages = <<"assemble", "crop", "augment">>
C24_WitnessBrightness ==
    ImageReturned /\ stages = <<"assemble", "crop", "augment", "brightness">>
C24_WitnessNoise == ImageReturned /\ stages = <<"assemble", "crop", "augment", "noise">>
C24_WitnessBlur == ImageReturned /\ stages = <<"assemble", "crop", "augment", "blur">>
C24_WitnessBrightnessNoise ==
    ImageReturned /\ stages = <<"assemble", "crop", "augment", "brightness", "noise">>
C24_WitnessBrightnessBlur ==
    ImageReturned /\ stages = <<"assemble", "crop", "augment", "brightness", "blur">>
C24_WitnessNoiseBlur ==
    ImageReturned /\ stages = <<"assemble", "crop", "augment", "noise", "blur">>

\* both flags off: the cropped assembly is returned although a background is loaded
C24_WitnessBothOff ==
    /\ ImageReturned
    /\ stages = <<"assemble", "crop">>
    /\ background_images # <<>>
    /\ ~add_background /\ ~apply_augmentation

\* add_background is set but no background is loaded
C24_WitnessNoBackground ==
    /\ ImageReturned
    /\ add_background /\ background_images = <<>>
    /\ stages = <<"assemble", "crop">>

----------------------------------------------------------------------------
(* C25: the order of random_augmentation_pipeline *)

PipelineReturned == pipeline.step = 8
AppliedCount == Len(pipeline.applied)

\* the place of a transform in the order rotation, perspective,
\* brightness/contrast, stroke thickness, gaps, blur
PipelineRank(name) ==
    CASE name = "rotate_image" -> 1
      [] name = "apply_perspective_transform" -> 2
      [] name = "adjust_brightness_contrast" -> 3
      [] name = "adjust_stroke_thickness" -> 4
      [] name = "add_random_gaps" -> 5
      [] name = "apply_blur" -> 6
      [] OTHER -> 0

\* C25: the transforms random_augmentation_pipeline applies are a
\* subsequence of rotation, perspective, brightness/contrast, stroke
\* thickness, gaps, blur; each receives the output of the transform applied
\* last before it, the first one the original image; the image returned is
\* the output of the last one, and the original image when none was applied,
\* which is the case whenever prob_each is 0.
C25_PipelineRunsInFixedOrder ==
    /\ \A k \in 1..AppliedCount : PipelineRank(pipeline.applied[k].name) \in 1..6
    /\ \A j, k \in 1..AppliedCount :
            j < k => PipelineRank(pipeline.applied[j].name)
                        < PipelineRank(pipeline.applied[k].name)
    /\ \A k \in 1..AppliedCount :
            /\ pipeline.applied[k].input =
                    IF k = 1 THEN pipeline.original ELSE pipeline.applied[k - 1].output
            /\ pipeline.applied[k].output
                    \in transformed(pipeline.applied[k].name, pipeline.applied[k].input)
    /\ pipeline.image =
            IF AppliedCount = 0 THEN pipeline.original
            ELSE pipeline.applied[AppliedCount].output
    /\ (PipelineReturned /\ pipeline.prob_each = 0) =>
            AppliedCount = 0 /\ pipeline.image = pipeline.original

\* all six transforms were applied, and each of them changed the image
C25_Witness ==
    /\ PipelineReturned
    /\ AppliedCount = 6
    /\ \A k \in 1..6 : pipeline.applied[k].output # pipeline.applied[k].input

\* prob_each is 0 and a draw was 0: nothing was applied
C25_WitnessNothingApplied ==
    /\ PipelineReturned
    /\ pipeline.prob_each = 0
    /\ AppliedCount = 0
    /\ pipeline.image = pipeline.original

\* perspective and blur alone: the blur received the output of the warp
C25_WitnessSkipsBetween ==
    /\ PipelineReturned
    /\ AppliedCount = 2
    /\ pipeline.applied[1].name = "apply_perspective_transform"
    /\ pipeline.applied[2].name = "apply_blur"
    /\ pipeline.applied[2].input # pipeline.original

----------------------------------------------------------------------------
(* C26: the resize of the background *)

\* the background is smaller than the line image in at least one dimension
SmallerSomewhere(bg, fg) == Width(bg) < Width(fg) \/ Height(bg) < Height(fg)

\* C26 as stated: a background smaller than the line image in a dimension is
\* resized to at least the size of the line image without either of its
\* dimensions being reduced; a background at least as large both ways is
\* not resized.
C26_Original ==
    Blended =>
        IF SmallerSomewhere(GivenBackground, prev_image)
        THEN /\ Width(background) >= Width(prev_image)
             /\ Height(background) >= Height(prev_image)
             /\ Width(background) >= Width(GivenBackground)
             /\ Height(background) >= Height(GivenBackground)
        ELSE background = GivenBackground

\* C26: a background smaller than the line image in at least one dimension
\* is resized to exactly the width and the height of the line image, so that
\* a dimension in which it was larger is reduced; a background at least as
\* large as the line image both ways is not resized.
C26_ResizedToLineSize ==
    Blended =>
        IF SmallerSomewhere(GivenBackground, prev_image)
        THEN /\ Width(background) = Width(prev_image)
             /\ Height(background) = Height(prev_image)
             /\ background \in resize(GivenBackground, Width(prev_image), Height(prev_image))
        ELSE background = GivenBackground

\* a background wider and shorter than the line image lost width in the resize
C26_Witness ==
    /\ Blended
    /\ Width(GivenBackground) > Width(prev_image)
    /\ Height(GivenBackground) < Height(prev_image)
    /\ Width(background) < Width(GivenBackground)
    /\ Height(background) = Height(prev_image)

\* a background as large as the line image one way and larger the other is kept
C26_WitnessNotResized ==
    /\ Blended
    /\ Width(GivenBackground) = Width(prev_image)
    /\ Height(GivenBackground) > Height(prev_image)
    /\ background = GivenBackground

----------------------------------------------------------------------------
(* C27: the composer reads the glyph store and the backgrounds, never writes them *)

SomeGlyphPadded ==
    \E k \in 1..Len(char_image_list) :
        Height(char_image_list[k]) < max_height_of(char_image_list)

BackgroundResized ==
    /\ Ran("blend")
    /\ \A k \in 1..Len(background_images) : background # background_images[k]

----------------------------------------------------------------------------
(* C28: the batches of generate_parallel *)

AllSubmitted == ppc \in {"collect", "returned"}
ParallelReturned == ppc = "returned"
BatchCount == Len(futures)

\* the least n with n * size >= total
Ceiling(total, size) ==
    CHOOSE n \in 0..total : n * size >= total /\ \A m \in 0..(n - 1) : m * size < total

RECURSIVE SumOfSizes(_)
SumOfSizes(fs) == IF fs = <<>> THEN 0 ELSE Head(fs).batch_size + SumOfSizes(Tail(fs))

\* the samples of the batches that completed, as a set
CompletedSamples ==
    UNION {{futures[b].samples[k] : k \in 1..Len(futures[b].samples)} :
            b \in {c \in 1..BatchCount : futures[c].status = "done"}}
MergedSamples == {all_samples[k] : k \in 1..Len(all_samples)}

\* C28: generate_parallel submits ceil(total_samples / batch_size) batches
\* whose sizes are between 1 and batch_size and add up to total_samples;
\* batch idx writes into its own directory batch_<idx> under its own name
\* prefix, so that whatever the interleaving of the workers no path is
\* written by two writers; the merged metadata is the union of the results
\* of the batches that completed, a failed batch adding nothing to it and
\* not keeping the other batches from completing.
C28_BatchesAreIndependent ==
    /\ AllSubmitted =>
        /\ BatchCount = Ceiling(total_samples, batch_size)
        /\ SumOfSizes(futures) = total_samples
    /\ \A b \in 1..BatchCount :
        /\ futures[b].batch_size \in 1..batch_size
        /\ futures[b].output_dir.prefix = "batch_"
        /\ NumberOf(futures[b].output_dir.number) = b - 1
        /\ Len(futures[b].output_dir.number) = 3
        /\ NumberOf(futures[b].name_prefix.number) = b - 1
    /\ \A b, c \in 1..BatchCount :
            b # c => futures[b].output_dir # futures[c].output_dir
    /\ \A w \in written :
            w.writer # 0 => w.path.dir = futures[w.writer].output_dir
    /\ \A v, w \in written : v.path = w.path => v.writer = w.writer
    /\ ParallelReturned =>
        /\ \A b \in 1..BatchCount : futures[b].status \in {"done", "failed"}
        /\ MergedSamples = CompletedSamples
        /\ Len(all_samples) = Cardinality(CompletedSamples)

\* four samples in batches of three: a batch of three and a batch of one,
\* run by two workers at a time; the first failed, the second completed and
\* its sample is the merged metadata
C28_Witness ==
    /\ ParallelReturned
    /\ total_samples = 4 /\ batch_size = 3
    /\ BatchCount = 2
    /\ futures[1].batch_size = 3 /\ futures[2].batch_size = 1
    /\ futures[1].status = "failed" /\ futures[2].status = "done"
    /\ Len(all_samples) = 1
    /\ all_samples[1].dir = batch_output_dir(1)

\* two batches are running at once and both have written a file
C28_WitnessInterleaved ==
    /\ Cardinality(Running) = 2
    /\ \A b \in Running : \E w \in written : w.writer = b
    /\ ppc = "submit"

\* a later batch completed and was collected before an earlier one
C28_WitnessOutOfOrder ==
    /\ ParallelReturned
    /\ BatchCount >= 2
    /\ Len(all_samples) >= 2
    /\ all_samples[1].dir = batch_output_dir(1)
    /\ all_samples[Len(all_samples)].dir = batch_output_dir(0)

----------------------------------------------------------------------------
(* C29: the label against the corpus filter *)

\* a set as a list, in some order
AsList(S) ==
    CHOOSE list \in [1..Cardinality(S) -> S] : \A ch \in S : in_list(ch, list)

\* filter_available_text(t, character_loader.get_available_characters())
Prescreened(t) == filter_available_text(t, AsList(get_available_characters(char_images)))

\* C29: whenever compose_line_image returns an image, its label is
\* filter_available_text of the text over the loader's available
\* characters, so that a text that is already filtered comes back unchanged
\* as the label.
C29_LabelIsFilteredText ==
    ImageReturned =>
        /\ ret.text = Prescreened(text)
        /\ Prescreened(ret.text) = ret.text
        /\ text = Prescreened(text) => ret.text = text

\* a text with a character that has no glyph and a blank was composed: the
\* label is shorter than the text and keeps the blank
C29_Witness ==
    /\ ImageReturned
    /\ text = <<"X", " ">>
    /\ ret.text = <<" ">>
    /\ get_available_characters(char_images) # {}

\* a text that is already filtered came back unchanged
C29_WitnessFiltered ==
    /\ ImageReturned
    /\ text = <<"A", " ", "B">>
    /\ ret.text = text

\* a character loaded in one style only, asked for in another style, is kept
C29_WitnessOtherStyle ==
    /\ ImageReturned
    /\ font_style = "s2"
    /\ text = <<"A", "X", "B">>
    /\ "s2" \notin DOMAIN char_images["B"]
    /\ ret.text = <<"A", "B">>

----------------------------------------------------------------------------
(* C30: persisted samples and real glyphs *)

\* some character of the text is not whitespace
HasVisibleCharacter(t) == \E n \in 1..Len(t) : ~isspace(t[n])

\* some non-whitespace character of the text has a glyph
SomeGlyphOf(t) == \E n \in 1..Len(t) : ~isspace(t[n]) /\ HasGlyph(t[n])

\* C30: every sample persisted by generate_line_samples has a label with at
\* least one non-whitespace character, and a text whose non-whitespace
\* characters all lack glyphs is never persisted.
C30_PersistedLabelHasGlyph ==
    \A k \in 1..Len(samples_metadata) :
        /\ HasVisibleCharacter(samples_metadata[k].text)
        /\ SomeGlyphOf(samples_metadata[k].original_text)

====
